---- MODULE Spec2Model ----
(***************************************************************************)
(* WhipSmart outbound call flow: the dialogue flow of agent_flow.py (node  *)
(* factories and function handlers over flow_manager.state) and the        *)
(* transport lifecycle hooks of bot.py (on_client_connected,               *)
(* on_client_disconnected), with the HubSpot calls of hubspot_api.py as    *)
(* operations that may fail.                                               *)
(*                                                                         *)
(* Python values are modelled as tuples: None is <<>>, a string s is <<s>>,*)
(* a boolean b is <<b>>.  args (FlowArgs) is a function from the keys that *)
(* are present to their values.                                            *)
(***************************************************************************)
EXTENDS Integers, Sequences, FiniteSets, TLC

VARIABLES
    contactId,   \* run_bot's contactId parameter (bot.py:95)
    state,       \* flow_manager.state
    node,        \* the NodeConfig the flow manager currently holds
    crmLog,      \* the HubSpot calls made so far, one entry per CRM sync
    last,        \* outcome of the most recent function call dispatched
    cancelled,   \* task.cancel() has been awaited (bot.py:254)
    context,     \* flow_manager.get_current_context(): the LLM context messages
    sent,        \* the conversation history of the last generation request
    issued,      \* the tool call under study, with its arguments and how
                 \* often it was issued (HandlerSpec, LoopSpec)
    tasks,       \* where the coroutines of the event loop stand (LoopSpec)
    hops,        \* how many times a handler's return installed a node
    ended,       \* the end_conversation directive has been issued
    idle,        \* the UserIdleProcessor of the pipeline and the frames its
                 \* callback pushed (IdleSpec)
    call_body_data,  \* server.py: body data by call SID
    call_results,    \* server.py: call results by call SID
    webhook,     \* the call-status request handled last (WebhookSpec)
    campaign     \* the campaign request handled last (CampaignSpec)

\* the variables Spec leaves alone: it does not follow the transcript, which
\* the context aggregator keeps, nor the arguments of the calls
aux == <<context, sent, issued, tasks, ended, idle, call_body_data, call_results,
         webhook, campaign>>

\* what lies outside the dialogue flow: the idle processor and the campaign
\* server
periphery == <<idle, call_body_data, call_results, webhook, campaign>>

vars == <<contactId, state, node, crmLog, last, cancelled, context, sent, issued,
          tasks, hops, ended, idle, call_body_data, call_results, webhook, campaign>>

\* ------------------------------------------------------------------ bounds

\* finalize_and_update_crm invocations explored per session
MaxFinalize == 1

\* ----------------------------------------------------------- Python values

None == <<>>

\* bool(v) of an Optional[str]: None and "" are falsy
TruthyStr(v) == v # None /\ v[1] # ""

\* bool(v) of an Optional[bool]
TruthyBool(v) == v # None /\ v[1] = TRUE

\* str(v) as an f-string formats it
PyStr(v) == IF v = None THEN "None" ELSE v[1]

\* args.get(key, default)
args_get(args, key, default) == IF key \in DOMAIN args THEN args[key] ELSE default

\* -------------------------------------------------------------- input sets

ContactIds == {"c1", "c2"}
NameArgs == {None, <<"Sam">>}
CompanyArgs == {<<"Acme">>}
ProviderArgs == {<<"Fleetcare">>}
DateArgs == {None, <<"">>, <<"next Tuesday">>}
TimeArgs == {None, <<"">>, <<"10am">>}
EmailArgs == {<<"sam@acme.com">>}
BoolArgs == {None, <<TRUE>>, <<FALSE>>}
Questions == {<<"What is novated leasing?">>}

\* what client.aio.models.generate_content does: an answer, or an exception
GenOutcomes == {"raise", "answer"}

\* what the three HubSpot calls of one CRM sync do.  update_contact_lead_status
\* swallows ApiException and returns False ("false"); anything else propagates.
CrmOutcomes == [notes : {"ok", "raise"}, status : {"ok", "false", "raise"}, deal : {"ok", "raise"}]

HUBSPOT_LEAD_STATUS == [OPEN_DEAL |-> "OPEN_DEAL", CONNECTED |-> "CONNECTED",
                        ATTEMPTED_TO_CONTACT |-> "ATTEMPTED_TO_CONTACT"]

\* ------------------------------------------------------------------- nodes

NodeConfig(name, functions, purpose, post_actions) ==
    [name |-> name, functions |-> functions, purpose |-> purpose, post_actions |-> post_actions]

\* no node installed yet / a handler's "None" next node
NoNode == NodeConfig("None", {}, "", {})

create_initial_greeting_node ==
    NodeConfig("initial_greeting", {"capture_manager_details", "query_knowledge_base"}, "", {})

create_ask_provider_node ==
    NodeConfig("ask_provider", {"handle_has_provider_response", "query_knowledge_base"}, "", {})

create_ask_provider_name_node ==
    NodeConfig("ask_provider_name", {"capture_provider_name", "query_knowledge_base"}, "", {})

create_scenario_a_pitch_node ==
    NodeConfig("scenario_a_pitch", {"handle_meeting_response", "query_knowledge_base"}, "", {})

create_scenario_b_pitch_node ==
    NodeConfig("scenario_b_pitch", {"handle_meeting_response", "query_knowledge_base"}, "", {})

\* variant: the node that offers the summary also declares the post-action
create_offer_email_summary_node_ends ==
    NodeConfig("offer_email_summary",
               {"handle_email_summary_response", "query_knowledge_base"}, "",
               {"end_conversation"})

create_offer_email_summary_node ==
    NodeConfig("offer_email_summary", {"handle_email_summary_response", "query_knowledge_base"}, "", {})

\* variant: the collect_email node built without the knowledge-base function
create_collect_email_node_no_kb(for_meeting) ==
    NodeConfig("collect_email", {"capture_email_address"},
               IF for_meeting THEN "send you the meeting invite" ELSE "shoot you that summary", {})

create_collect_email_node(for_meeting) ==
    NodeConfig("collect_email", {"capture_email_address", "query_knowledge_base"},
               IF for_meeting THEN "send you the meeting invite" ELSE "shoot you that summary", {})

\* variant: end_call also offers capture_provider_name
create_end_call_node_stray ==
    NodeConfig("end_call", {"finalize_and_update_crm", "capture_provider_name"}, "",
               {"end_conversation"})

create_end_call_node ==
    NodeConfig("end_call", {"finalize_and_update_crm"}, "", {"end_conversation"})

\* every function name a node offers
FunctionNames ==
    {"capture_manager_details", "handle_has_provider_response", "capture_provider_name",
     "query_knowledge_base", "handle_meeting_response", "handle_email_summary_response",
     "capture_email_address", "finalize_and_update_crm"}

\* the function names the model has called while the node does not offer them
StrayCalls == {"capture_provider_name", "query_knowledge_base", "finalize_and_update_crm"}

\* ----------------------------------------------------------- session state

\* variant: meeting_status starts unset like the captured facts
initial_state_status_unset(contact_id) ==
    [contact_id |-> contact_id,
     manager_name |-> None,
     company_name |-> None,
     current_provider |-> None,
     meeting_status |-> None,
     meeting_date |-> None,
     meeting_time |-> None,
     meeting_day_time |-> None,
     email_address |-> None,
     interested_in_novated_leasing |-> <<FALSE>>,
     send_summary_email |-> <<FALSE>>,
     has_existing_provider |-> None]

initial_state(contact_id) ==
    [contact_id |-> contact_id,
     manager_name |-> None,
     company_name |-> None,
     current_provider |-> None,
     meeting_status |-> <<"Not Discussed">>,
     meeting_date |-> None,
     meeting_time |-> None,
     meeting_day_time |-> None,
     email_address |-> None,
     interested_in_novated_leasing |-> <<FALSE>>,
     send_summary_email |-> <<FALSE>>,
     has_existing_provider |-> None]

\* a handler's return: the state it leaves, the text and the next node it
\* returns, and whether an exception escaped it
Return(st, text, next) ==
    [state |-> st, text |-> text, next |-> next, raised |-> FALSE, crm |-> <<>>]

\* ---------------------------------------------------------------- handlers

\* variant: the organisation is written to manager_name
capture_manager_details_swapped(args, st) ==
    LET manager_name == args_get(args, "manager_name", <<"Not provided">>)
        company_name == args_get(args, "company_name", <<"Not provided">>)
    IN  Return([st EXCEPT !.manager_name = company_name, !.company_name = company_name],
               <<"Lovely to speak with you, " \o PyStr(manager_name) \o "!">>,
               create_ask_provider_node)

capture_manager_details(args, st) ==
    LET manager_name == args_get(args, "manager_name", <<"Not provided">>)
        company_name == args_get(args, "company_name", <<"Not provided">>)
    IN  Return([st EXCEPT !.manager_name = manager_name, !.company_name = company_name],
               <<"Lovely to speak with you, " \o PyStr(manager_name) \o "!">>,
               create_ask_provider_node)

\* variant: without the assignment of line 59
handle_has_provider_response_no_sentinel(args, st) ==
    LET has_provider == args_get(args, "has_provider", <<FALSE>>)
        st1 == [st EXCEPT !.has_existing_provider = has_provider]
    IN  IF TruthyBool(has_provider)
        THEN Return(st1, <<"Right, I see.">>, create_ask_provider_name_node)
        ELSE Return(st1, <<"No worries, I understand.">>, create_scenario_b_pitch_node)

\* variant: a missing has_provider defaults to True
handle_has_provider_response_default_true(args, st) ==
    LET has_provider == args_get(args, "has_provider", <<TRUE>>)
        st1 == [st EXCEPT !.has_existing_provider = has_provider]
    IN  IF TruthyBool(has_provider)
        THEN Return(st1, <<"Right, I see.">>, create_ask_provider_name_node)
        ELSE Return([st1 EXCEPT !.current_provider = <<"None">>],
                    <<"No worries, I understand.">>, create_scenario_b_pitch_node)

handle_has_provider_response(args, st) ==
    LET has_provider == args_get(args, "has_provider", <<FALSE>>)
        st1 == [st EXCEPT !.has_existing_provider = has_provider]
    IN  IF TruthyBool(has_provider)
        THEN Return(st1, <<"Right, I see.">>, create_ask_provider_name_node)
        ELSE Return([st1 EXCEPT !.current_provider = <<"None">>],
                    <<"No worries, I understand.">>, create_scenario_b_pitch_node)

\* variant: returns the pitch of the other scenario
capture_provider_name_wrong_pitch(args, st) ==
    LET provider_name == args_get(args, "provider_name", <<"Not specified">>)
    IN  Return([st EXCEPT !.current_provider = provider_name],
               <<"Thanks for that. " \o PyStr(provider_name) \o " is a solid choice.">>,
               create_scenario_b_pitch_node)

\* variant: the provider is appended to the one already recorded
capture_provider_name_appends(args, st) ==
    LET provider_name == args_get(args, "provider_name", <<"Not specified">>)
    IN  Return([st EXCEPT !.current_provider =
                    IF TruthyStr(@) THEN <<@[1] \o ", " \o PyStr(provider_name)>>
                    ELSE provider_name],
               <<"Thanks for that. " \o PyStr(provider_name) \o " is a solid choice.">>,
               create_scenario_a_pitch_node)

capture_provider_name(args, st) ==
    LET provider_name == args_get(args, "provider_name", <<"Not specified">>)
    IN  Return([st EXCEPT !.current_provider = provider_name],
               <<"Thanks for that. " \o PyStr(provider_name) \o " is a solid choice.">>,
               create_scenario_a_pitch_node)

FallbackResponse ==
    <<"Sorry mate, I'm having a bit of trouble accessing that information right now. Let me continue with our chat about WhipSmart's novated leasing program.">>

\* variant: the fallback return also ends the call
query_knowledge_base_ends(args, st, gen) ==
    IF gen = "raise"
    THEN Return(st, FallbackResponse, NodeConfig("end_call", {"finalize_and_update_crm"}, "", {"end_conversation"}))
    ELSE Return(st, <<"response.text">>, NoNode)

\* variant: no try/except around generate_content
query_knowledge_base_unguarded(args, st, gen) ==
    IF gen = "raise"
    THEN [Return(st, <<>>, NoNode) EXCEPT !.raised = TRUE]
    ELSE Return(st, <<"response.text">>, NoNode)

\* variant: once it has answered, the handler goes back to the pitch
query_knowledge_base_returns_to_pitch(args, st, gen) ==
    IF gen = "raise"
    THEN Return(st, FallbackResponse, NoNode)
    ELSE Return(st, <<"response.text">>, create_scenario_a_pitch_node)

\* gen is what the generate_content call does
query_knowledge_base(args, st, gen) ==
    IF gen = "raise"
    THEN Return(st, FallbackResponse, NoNode)
    ELSE Return(st, <<"response.text">>, NoNode)

\* variant: an accepted meeting does not set interested_in_novated_leasing
handle_meeting_response_no_flag(args, st) ==
    LET accepts_meeting == args_get(args, "accepts_meeting", <<FALSE>>)
    IN  IF TruthyBool(accepts_meeting)
        THEN Return([st EXCEPT !.meeting_status = <<"Interested - To Be Scheduled">>],
                    <<"Brilliant! I'll get that sorted for you.">>,
                    NodeConfig("collect_email", {"capture_email_address", "query_knowledge_base"},
                               "send you the meeting invite", {}))
        ELSE Return([st EXCEPT !.meeting_status = <<"Declined">>,
                               !.interested_in_novated_leasing = <<FALSE>>],
                    <<"No worries at all, mate.">>,
                    NodeConfig("offer_email_summary",
                               {"handle_email_summary_response", "query_knowledge_base"}, "", {}))

\* variant: the two branches return each other's node
handle_meeting_response_swapped_nodes(args, st) ==
    LET accepts_meeting == args_get(args, "accepts_meeting", <<FALSE>>)
        meeting_date == args_get(args, "meeting_date", None)
        meeting_time == args_get(args, "meeting_time", None)
    IN  IF TruthyBool(accepts_meeting)
        THEN Return([st EXCEPT
                        !.meeting_status = <<"Interested - To Be Scheduled">>,
                        !.meeting_date = IF TruthyStr(meeting_date) THEN meeting_date
                                         ELSE <<"To be confirmed">>,
                        !.meeting_time = IF TruthyStr(meeting_time) THEN meeting_time
                                         ELSE <<"To be confirmed">>,
                        !.meeting_day_time =
                            IF TruthyStr(meeting_date) /\ TruthyStr(meeting_time)
                            THEN <<meeting_date[1] \o " at " \o meeting_time[1]>>
                            ELSE IF TruthyStr(meeting_date) THEN meeting_date
                            ELSE <<"To be confirmed">>,
                        !.interested_in_novated_leasing = <<TRUE>>],
                    <<"Brilliant! I'll get that sorted for you.">>,
                    create_offer_email_summary_node)
        ELSE Return([st EXCEPT !.meeting_status = <<"Declined">>,
                               !.interested_in_novated_leasing = <<FALSE>>],
                    <<"No worries at all, mate.">>,
                    create_collect_email_node(TRUE))

\* variant: the date and time are stored as they arrive
handle_meeting_response_raw(args, st) ==
    LET accepts_meeting == args_get(args, "accepts_meeting", <<FALSE>>)
        meeting_date == args_get(args, "meeting_date", None)
        meeting_time == args_get(args, "meeting_time", None)
    IN  IF TruthyBool(accepts_meeting)
        THEN Return([st EXCEPT
                        !.meeting_status = <<"Interested - To Be Scheduled">>,
                        !.meeting_date = meeting_date,
                        !.meeting_time = meeting_time,
                        !.meeting_day_time =
                            IF TruthyStr(meeting_date) /\ TruthyStr(meeting_time)
                            THEN <<meeting_date[1] \o " at " \o meeting_time[1]>>
                            ELSE IF TruthyStr(meeting_date) THEN meeting_date
                            ELSE <<"To be confirmed">>,
                        !.interested_in_novated_leasing = <<TRUE>>],
                    <<"Brilliant! I'll get that sorted for you.">>,
                    create_collect_email_node(TRUE))
        ELSE Return([st EXCEPT !.meeting_status = <<"Declined">>,
                               !.interested_in_novated_leasing = <<FALSE>>],
                    <<"No worries at all, mate.">>,
                    create_offer_email_summary_node)

\* variant: a declined meeting clears the date and time
handle_meeting_response_decline_clears(args, st) ==
    LET accepts_meeting == args_get(args, "accepts_meeting", <<FALSE>>)
        meeting_date == args_get(args, "meeting_date", None)
        meeting_time == args_get(args, "meeting_time", None)
    IN  IF TruthyBool(accepts_meeting)
        THEN Return([st EXCEPT
                        !.meeting_status = <<"Interested - To Be Scheduled">>,
                        !.meeting_date = IF TruthyStr(meeting_date) THEN meeting_date
                                         ELSE <<"To be confirmed">>,
                        !.meeting_time = IF TruthyStr(meeting_time) THEN meeting_time
                                         ELSE <<"To be confirmed">>,
                        !.meeting_day_time =
                            IF TruthyStr(meeting_date) /\ TruthyStr(meeting_time)
                            THEN <<meeting_date[1] \o " at " \o meeting_time[1]>>
                            ELSE IF TruthyStr(meeting_date) THEN meeting_date
                            ELSE <<"To be confirmed">>,
                        !.interested_in_novated_leasing = <<TRUE>>],
                    <<"Brilliant! I'll get that sorted for you.">>,
                    create_collect_email_node(TRUE))
        ELSE Return([st EXCEPT !.meeting_status = <<"Declined">>,
                               !.meeting_date = None,
                               !.meeting_time = None,
                               !.meeting_day_time = None,
                               !.interested_in_novated_leasing = <<FALSE>>],
                    <<"No worries at all, mate.">>,
                    create_offer_email_summary_node)

\* variant: a time given without a date becomes the combined field
handle_meeting_response_time_alone(args, st) ==
    LET accepts_meeting == args_get(args, "accepts_meeting", <<FALSE>>)
        meeting_date == args_get(args, "meeting_date", None)
        meeting_time == args_get(args, "meeting_time", None)
    IN  IF TruthyBool(accepts_meeting)
        THEN Return([st EXCEPT
                        !.meeting_status = <<"Interested - To Be Scheduled">>,
                        !.meeting_date = IF TruthyStr(meeting_date) THEN meeting_date
                                         ELSE <<"To be confirmed">>,
                        !.meeting_time = IF TruthyStr(meeting_time) THEN meeting_time
                                         ELSE <<"To be confirmed">>,
                        !.meeting_day_time =
                            IF TruthyStr(meeting_date) /\ TruthyStr(meeting_time)
                            THEN <<meeting_date[1] \o " at " \o meeting_time[1]>>
                            ELSE IF TruthyStr(meeting_date) THEN meeting_date
                            ELSE IF TruthyStr(meeting_time) THEN meeting_time
                            ELSE <<"To be confirmed">>,
                        !.interested_in_novated_leasing = <<TRUE>>],
                    <<"Brilliant! I'll get that sorted for you.">>,
                    create_collect_email_node(TRUE))
        ELSE Return([st EXCEPT !.meeting_status = <<"Declined">>,
                               !.interested_in_novated_leasing = <<FALSE>>],
                    <<"No worries at all, mate.">>,
                    create_offer_email_summary_node)

handle_meeting_response(args, st) ==
    LET accepts_meeting == args_get(args, "accepts_meeting", <<FALSE>>)
        meeting_date == args_get(args, "meeting_date", None)
        meeting_time == args_get(args, "meeting_time", None)
    IN  IF TruthyBool(accepts_meeting)
        THEN Return([st EXCEPT
                        !.meeting_status = <<"Interested - To Be Scheduled">>,
                        !.meeting_date = IF TruthyStr(meeting_date) THEN meeting_date
                                         ELSE <<"To be confirmed">>,
                        !.meeting_time = IF TruthyStr(meeting_time) THEN meeting_time
                                         ELSE <<"To be confirmed">>,
                        !.meeting_day_time =
                            IF TruthyStr(meeting_date) /\ TruthyStr(meeting_time)
                            THEN <<meeting_date[1] \o " at " \o meeting_time[1]>>
                            ELSE IF TruthyStr(meeting_date) THEN meeting_date
                            ELSE <<"To be confirmed">>,
                        !.interested_in_novated_leasing = <<TRUE>>],
                    <<"Brilliant! I'll get that sorted for you.">>,
                    create_collect_email_node(TRUE))
        ELSE Return([st EXCEPT !.meeting_status = <<"Declined">>,
                               !.interested_in_novated_leasing = <<FALSE>>],
                    <<"No worries at all, mate.">>,
                    create_offer_email_summary_node)

\* variant: asking for the summary counts as interest
handle_email_summary_response_counts_interest(args, st) ==
    LET wants_summary == args_get(args, "wants_summary", <<FALSE>>)
    IN  IF TruthyBool(wants_summary)
        THEN Return([st EXCEPT !.send_summary_email = <<TRUE>>,
                               !.interested_in_novated_leasing = <<TRUE>>],
                    <<"Ripper!">>, create_collect_email_node(FALSE))
        ELSE Return([st EXCEPT !.send_summary_email = <<FALSE>>,
                               !.interested_in_novated_leasing = <<FALSE>>],
                    <<"Fair enough, I completely understand.">>, create_end_call_node)

\* variant: a declined summary goes back to the pitch
handle_email_summary_response_pitches_again(args, st) ==
    LET wants_summary == args_get(args, "wants_summary", <<FALSE>>)
    IN  IF TruthyBool(wants_summary)
        THEN Return([st EXCEPT !.send_summary_email = <<TRUE>>],
                    <<"Ripper!">>, create_collect_email_node(FALSE))
        ELSE Return([st EXCEPT !.send_summary_email = <<FALSE>>,
                               !.interested_in_novated_leasing = <<FALSE>>],
                    <<"Fair enough, I completely understand.">>, create_scenario_b_pitch_node)

\* variant: the request for the summary is left for capture_email_address to
\* record
handle_email_summary_response_no_request(args, st) ==
    LET wants_summary == args_get(args, "wants_summary", <<FALSE>>)
    IN  IF TruthyBool(wants_summary)
        THEN Return(st, <<"Ripper!">>, create_collect_email_node(FALSE))
        ELSE Return([st EXCEPT !.send_summary_email = <<FALSE>>,
                               !.interested_in_novated_leasing = <<FALSE>>],
                    <<"Fair enough, I completely understand.">>, create_end_call_node)

handle_email_summary_response(args, st) ==
    LET wants_summary == args_get(args, "wants_summary", <<FALSE>>)
    IN  IF TruthyBool(wants_summary)
        THEN Return([st EXCEPT !.send_summary_email = <<TRUE>>],
                    <<"Ripper!">>, create_collect_email_node(FALSE))
        ELSE Return([st EXCEPT !.send_summary_email = <<FALSE>>,
                               !.interested_in_novated_leasing = <<FALSE>>],
                    <<"Fair enough, I completely understand.">>, create_end_call_node)

\* the audit snapshot; reads the state and returns the dictionary it logs
log_lead_data(st) ==
    [manager_name |-> st.manager_name,
     company_name |-> st.company_name,
     current_provider |-> st.current_provider,
     meeting_status |-> st.meeting_status,
     meeting_date |-> st.meeting_date,
     meeting_time |-> st.meeting_time,
     meeting_day_time |-> st.meeting_day_time,
     email_address |-> st.email_address,
     interested_in_novated_leasing |-> st.interested_in_novated_leasing,
     send_summary_email |-> st.send_summary_email]

\* variant: args.get("email") without a default
capture_email_address_no_default(args, st) ==
    LET email == args_get(args, "email", None)
        st1 == [st EXCEPT !.email_address = email]
        lead_data == log_lead_data(st1)
    IN  Return(st1, <<"Perfect, I've got that down as " \o PyStr(email) \o ".">>,
               create_end_call_node)

\* variant: a captured email marks the contact as interested
capture_email_address_marks_interested(args, st) ==
    LET email == args_get(args, "email", <<"Not provided">>)
        st1 == [st EXCEPT !.email_address = email,
                          !.interested_in_novated_leasing = <<TRUE>>]
        lead_data == log_lead_data(st1)
    IN  Return(st1, <<"Perfect, I've got that down as " \o PyStr(email) \o ".">>,
               create_end_call_node)

capture_email_address(args, st) ==
    LET email == args_get(args, "email", <<"Not provided">>)
        st1 == [st EXCEPT !.email_address = email]
        lead_data == log_lead_data(st1)
    IN  Return(st1, <<"Perfect, I've got that down as " \o PyStr(email) \o ".">>,
               create_end_call_node)

\* ---------------------------------------------------------------- CRM sync

\* One CRM sync as crmLog records it: the add_call_notes call, then the
\* update_contact_lead_status call and the create_deal_for_contact call if
\* control reached them ("" / "skipped" when it did not), and whether the
\* except clause logged an error.
CrmEntry(site, contact, notes, notes_result, status, status_result, deal_result) ==
    [site |-> site, contact |-> contact, notes |-> notes, notes_result |-> notes_result,
     status |-> status, status_result |-> status_result, deal_result |-> deal_result,
     error_logged |-> "raise" \in {notes_result, status_result, deal_result}]

\* the field map finalize_and_update_crm passes to add_call_notes
FinalizeNotes(outcome) ==
       ("Manager Name" :> outcome.manager_name)
    @@ ("Company Name" :> outcome.company_name)
    @@ ("Current Provider" :> outcome.current_provider)
    @@ ("Meeting Status" :> outcome.meeting_status)
    @@ ("Meeting Date" :> outcome.meeting_date)
    @@ ("Meeting Time" :> outcome.meeting_time)
    @@ ("Meeting Day/Time" :> outcome.meeting_day_time)
    @@ ("Email Address" :> outcome.email_address)
    @@ ("Interested" :> outcome.interested_in_novated_leasing)
    @@ ("Has Existing Provider" :> outcome.has_existing_provider)

\* variant: create_deal_for_contact sits after the if/else, not inside it
FinalizeSync_deal_always(outcome, contact_id, o) ==
    IF o.notes = "raise"
    THEN CrmEntry("finalize", contact_id, FinalizeNotes(outcome), "raise", "", "skipped", "skipped")
    ELSE CrmEntry("finalize", contact_id, FinalizeNotes(outcome), "ok",
                  IF TruthyBool(outcome.interested_in_novated_leasing)
                  THEN HUBSPOT_LEAD_STATUS.OPEN_DEAL ELSE HUBSPOT_LEAD_STATUS.CONNECTED,
                  o.status, IF o.status = "raise" THEN "skipped" ELSE o.deal)

\* the try block of finalize_and_update_crm; o is what the HubSpot calls of
\* this sync do
FinalizeSync(outcome, contact_id, o) ==
    IF o.notes = "raise"
    THEN CrmEntry("finalize", contact_id, FinalizeNotes(outcome), "raise", "", "skipped", "skipped")
    ELSE IF TruthyBool(outcome.interested_in_novated_leasing)
    THEN CrmEntry("finalize", contact_id, FinalizeNotes(outcome), "ok",
                  HUBSPOT_LEAD_STATUS.OPEN_DEAL, o.status,
                  IF o.status = "raise" THEN "skipped" ELSE o.deal)
    ELSE CrmEntry("finalize", contact_id, FinalizeNotes(outcome), "ok",
                  HUBSPOT_LEAD_STATUS.CONNECTED, o.status, "skipped")

\* variant: returns the greeting node, where the code returns no node
finalize_and_update_crm_restarts(args, st, o) ==
    LET outcome == st
        contact_id == st.contact_id
    IN  [Return(st, <<"Cheers for your time!">>, create_initial_greeting_node) EXCEPT
            !.crm = IF TruthyStr(contact_id)
                    THEN <<FinalizeSync(outcome, contact_id, o)>> ELSE <<>>]

\* variant: create_deal_for_contact is called outside the try block
finalize_and_update_crm_escapes(args, st, o) ==
    LET entry == FinalizeSync(st, st.contact_id, o)
    IN  IF entry.deal_result = "raise"
        THEN [Return(st, <<>>, NoNode) EXCEPT !.crm = <<entry>>, !.raised = TRUE]
        ELSE [Return(st, <<"Cheers for your time!">>, NoNode) EXCEPT !.crm = <<entry>>]

\* variant: the summary request is cleared once the notes are pushed
finalize_and_update_crm_clears_request(args, st, o) ==
    LET outcome == st
        contact_id == st.contact_id
    IN  [Return([st EXCEPT !.send_summary_email = <<FALSE>>],
                <<"Cheers for your time!">>, NoNode) EXCEPT
            !.crm = IF TruthyStr(contact_id)
                    THEN <<FinalizeSync(outcome, contact_id, o)>> ELSE <<>>]

finalize_and_update_crm(args, st, o) ==
    LET outcome == st
        contact_id == st.contact_id
    IN  [Return(st, <<"Cheers for your time!">>, NoNode) EXCEPT
            !.crm = IF TruthyStr(contact_id)
                    THEN <<FinalizeSync(outcome, contact_id, o)>> ELSE <<>>]

\* the field map on_client_disconnected passes to add_call_notes
DisconnectNotes(outcome) ==
       ("Manager Name" :> outcome.manager_name)
    @@ ("Company Name" :> outcome.company_name)
    @@ ("Current Provider" :> outcome.current_provider)
    @@ ("Meeting Status" :> outcome.meeting_status)
    @@ ("Meeting Day/Time" :> outcome.meeting_day_time)
    @@ ("Email Address" :> outcome.email_address)
    @@ ("Interested" :> outcome.interested_in_novated_leasing)
    @@ ("Has Existing Provider" :> outcome.has_existing_provider)

\* variant: the notes are pushed last, after the lead status and the deal
DisconnectSync_notes_last(outcome, contact, o) ==
    LET status == IF TruthyBool(outcome.interested_in_novated_leasing)
                  THEN HUBSPOT_LEAD_STATUS.OPEN_DEAL ELSE HUBSPOT_LEAD_STATUS.CONNECTED
        deal == IF ~TruthyBool(outcome.interested_in_novated_leasing) \/ o.status = "raise"
                THEN "skipped" ELSE o.deal
    IN  CrmEntry("disconnect", <<contact>>, DisconnectNotes(outcome),
                 IF "raise" \in {o.status, deal} THEN "skipped" ELSE o.notes,
                 status, o.status, deal)

\* the try block of on_client_disconnected
DisconnectSync(outcome, contact, o) ==
    IF o.notes = "raise"
    THEN CrmEntry("disconnect", <<contact>>, DisconnectNotes(outcome), "raise", "", "skipped", "skipped")
    ELSE IF TruthyBool(outcome.interested_in_novated_leasing)
    THEN CrmEntry("disconnect", <<contact>>, DisconnectNotes(outcome), "ok",
                  HUBSPOT_LEAD_STATUS.OPEN_DEAL, o.status,
                  IF o.status = "raise" THEN "skipped" ELSE o.deal)
    ELSE CrmEntry("disconnect", <<contact>>, DisconnectNotes(outcome), "ok",
                  HUBSPOT_LEAD_STATUS.CONNECTED, o.status, "skipped")

\* variant: the handler syncs only once the meeting question was answered
on_client_disconnected_if_discussed(st, contact, o) ==
    [crm |-> IF st.meeting_status = <<"Not Discussed">> THEN <<>>
             ELSE <<DisconnectSync(st, contact, o)>>,
     raised |-> FALSE, cancelled |-> TRUE]

\* variant: task.cancel() is the last statement of the try block, and there
\* is no except clause
on_client_disconnected_cancel_in_try(st, contact, o) ==
    LET entry == DisconnectSync(st, contact, o)
    IN  [crm |-> <<entry>>, raised |-> entry.error_logged, cancelled |-> ~entry.error_logged]

\* the disconnect handler: the CRM sync it makes, whether an exception
\* escapes it, and whether it reaches task.cancel() (the finally clause)
on_client_disconnected(st, contact, o) ==
    LET outcome == st
    IN  [crm |-> <<DisconnectSync(outcome, contact, o)>>, raised |-> FALSE, cancelled |-> TRUE]

\* ------------------------------------------------------------- flow engine

\* the arguments a tool call carries: the keys in present, with vals' values
MkArgs(present, vals) == [k \in present |-> vals[k]]

\* ------------------------------------------------------------- periphery

\* the idle processor before the conversation starts: not yet monitoring,
\* no callback made, nothing pushed
NoIdle == [phase |-> "waiting", retry_count |-> 0, interrupted |-> FALSE, pushed |-> <<>>]

\* no call-status request handled
NoWebhook == [handled |-> 0, form |-> <<>>, crm |-> <<>>, status_code |-> 0]

\* no campaign request handled
NoCampaign == [handled |-> 0, request |-> <<>>, contacts |-> <<>>, calls |-> <<>>,
               results |-> <<>>, crm |-> <<>>, response |-> <<>>, status_code |-> 0]

\* the idle processor has not started and the server has handled no request
PeripheryAtRest ==
    /\ idle = NoIdle
    /\ call_body_data = <<>>
    /\ call_results = <<>>
    /\ webhook = NoWebhook
    /\ campaign = NoCampaign

\* no coroutine is running: the handler task and the query task are idle
NoTasks == [handler |-> "idle", query |-> "idle", query_from |-> "None"]

\* no tool call issued
NoIssue == [name |-> "", args |-> <<>>, runs |-> 0]

NoCall == [action |-> "", outcome |-> "", text |-> <<>>, next |-> "None", gen |-> ""]

\* the end_conversation directive has been issued: the conversation is over
Ended == ended

\* a function call can be dispatched: a node is installed, the pipeline task
\* still runs, the conversation has not been ended, and the node offers the
\* function
Callable(name) == ~cancelled /\ node # NoNode /\ ~Ended /\ name \in node.functions

\* the flow manager applies a handler's return r: the state the handler left,
\* the returned node installed if there is one
Apply(name, r, gen) ==
    /\ state' = r.state
    /\ node' = IF r.raised \/ r.next = NoNode THEN node ELSE r.next
    /\ crmLog' = crmLog \o r.crm
    /\ last' = [action |-> name, outcome |-> IF r.raised THEN "raised" ELSE "ok",
                text |-> r.text, next |-> r.next.name, gen |-> gen]
    /\ hops' = IF r.raised \/ r.next = NoNode THEN hops ELSE hops + 1
    /\ UNCHANGED <<contactId, cancelled, aux>>

Finalized == Cardinality({i \in DOMAIN crmLog : crmLog[i].site = "finalize"})

\* ----------------------------------------------------------------- actions

\* the call data parse_telephony_websocket hands to bot(): with or without a
\* body; the body empty, or carrying a contactId (null, empty or an id) or
\* only other keys
CallData ==
    {<<>>} \cup
    { [body |-> b] :
        b \in {<<>>, [to |-> <<"+61400000000">>]}
              \cup { [contactId |-> c] : c \in {None, <<"">>} \cup {<<id>> : id \in ContactIds} } }

\* variant: only a contactId that is absent or null is turned away
bot_checks_none_only(call_data) ==
    LET body_data == args_get(call_data, "body", <<>>)
        contact_id == args_get(body_data, "contactId", None)
    IN  IF body_data = <<>> THEN [started |-> FALSE, contactId |-> None]
        ELSE IF contact_id = None THEN [started |-> FALSE, contactId |-> None]
        ELSE [started |-> TRUE, contactId |-> contact_id]

\* bot(): whether it reaches run_bot, and the contactId it passes
bot(call_data) ==
    LET body_data == args_get(call_data, "body", <<>>)
        contact_id == args_get(body_data, "contactId", None)
    IN  IF body_data = <<>> THEN [started |-> FALSE, contactId |-> None]
        ELSE IF ~TruthyStr(contact_id) THEN [started |-> FALSE, contactId |-> None]
        ELSE [started |-> TRUE, contactId |-> contact_id]

\* the contactId of every session bot() starts
SessionContacts == { bot(cd).contactId[1] : cd \in {c \in CallData : bot(c).started} }

Init ==
    /\ contactId \in SessionContacts
    /\ state = initial_state(<<contactId>>)
    /\ node = NoNode
    /\ crmLog = <<>>
    /\ last = NoCall
    /\ cancelled = FALSE
    /\ context = <<>>
    /\ sent = <<>>
    /\ issued = NoIssue
    /\ tasks = NoTasks
    /\ hops = 0
    /\ ended = FALSE
    /\ PeripheryAtRest

OnClientConnected ==
    /\ node = NoNode /\ ~cancelled
    /\ node' = create_initial_greeting_node
    /\ UNCHANGED <<contactId, state, crmLog, last, cancelled, aux, hops>>

CaptureManagerDetails ==
    /\ Callable("capture_manager_details")
    /\ \E present \in SUBSET {"manager_name", "company_name"} :
       \E m \in NameArgs, c \in CompanyArgs :
          Apply("capture_manager_details",
                capture_manager_details(
                    MkArgs(present, [manager_name |-> m, company_name |-> c]), state), "")

HandleHasProviderResponse ==
    /\ Callable("handle_has_provider_response")
    /\ \E present \in SUBSET {"has_provider"} : \E b \in BoolArgs :
          Apply("handle_has_provider_response",
                handle_has_provider_response(MkArgs(present, [has_provider |-> b]), state), "")

CaptureProviderName ==
    /\ Callable("capture_provider_name")
    /\ \E present \in SUBSET {"provider_name"} : \E p \in ProviderArgs :
          Apply("capture_provider_name",
                capture_provider_name(MkArgs(present, [provider_name |-> p]), state), "")

QueryKnowledgeBase ==
    /\ Callable("query_knowledge_base")
    /\ \E present \in SUBSET {"question"} : \E q \in Questions, gen \in GenOutcomes :
          Apply("query_knowledge_base",
                query_knowledge_base(MkArgs(present, [question |-> q]), state, gen), gen)

HandleMeetingResponse ==
    /\ Callable("handle_meeting_response")
    /\ \E present \in SUBSET {"accepts_meeting", "meeting_date", "meeting_time"} :
       \E a \in BoolArgs, d \in DateArgs, t \in TimeArgs :
          Apply("handle_meeting_response",
                handle_meeting_response(
                    MkArgs(present, [accepts_meeting |-> a, meeting_date |-> d,
                                     meeting_time |-> t]), state), "")

HandleEmailSummaryResponse ==
    /\ Callable("handle_email_summary_response")
    /\ \E present \in SUBSET {"wants_summary"} : \E b \in BoolArgs :
          Apply("handle_email_summary_response",
                handle_email_summary_response(MkArgs(present, [wants_summary |-> b]), state), "")

CaptureEmailAddress ==
    /\ Callable("capture_email_address")
    /\ \E present \in SUBSET {"email"} : \E e \in EmailArgs :
          Apply("capture_email_address",
                capture_email_address(MkArgs(present, [email |-> e]), state), "")

FinalizeAndUpdateCrm ==
    /\ Callable("finalize_and_update_crm")
    /\ Finalized < MaxFinalize
    /\ \E o \in CrmOutcomes :
          Apply("finalize_and_update_crm", finalize_and_update_crm(<<>>, state, o), "")

\* a function call naming a function the current node does not offer
UnknownAction ==
    /\ ~cancelled /\ node # NoNode /\ ~Ended
    /\ \E name \in StrayCalls \ node.functions :
          last' = [action |-> name, outcome |-> "UnknownAction", text |-> <<>>,
                   next |-> "None", gen |-> ""]
    /\ UNCHANGED <<contactId, state, node, crmLog, cancelled, aux, hops>>

\* a post-action of the current node fires once a function the node offers
\* has completed: the "end_conversation" directive to the transport
EndConversation ==
    /\ ~cancelled /\ node # NoNode
    /\ "end_conversation" \in node.post_actions
    /\ last.action \in node.functions
    /\ last.outcome = "ok"
    /\ ~ended
    /\ ended' = TRUE
    /\ UNCHANGED <<contactId, state, node, crmLog, last, cancelled, context, sent,
                   issued, tasks, hops,
                   periphery>>

OnClientDisconnected ==
    /\ ~cancelled /\ node # NoNode
    /\ \E o \in CrmOutcomes :
          LET r == on_client_disconnected(state, contactId, o)
          IN  /\ crmLog' = crmLog \o r.crm
              /\ cancelled' = r.cancelled
    /\ UNCHANGED <<contactId, state, node, last, aux, hops>>

Next ==
    \/ OnClientConnected
    \/ CaptureManagerDetails
    \/ HandleHasProviderResponse
    \/ CaptureProviderName
    \/ QueryKnowledgeBase
    \/ HandleMeetingResponse
    \/ HandleEmailSummaryResponse
    \/ CaptureEmailAddress
    \/ FinalizeAndUpdateCrm
    \/ UnknownAction
    \/ EndConversation
    \/ OnClientDisconnected

Spec == Init /\ [][Next]_vars

\* ------------------------------------------------------------------ claims

\* the CRM syncs in which update_contact_lead_status was called
StatusUpdates == {i \in DOMAIN crmLog : crmLog[i].status # ""}

\* no HubSpot call of the session failed
NoCrmFailure ==
    \A i \in DOMAIN crmLog :
        ~crmLog[i].error_logged /\ crmLog[i].status_result \in {"ok", "skipped"}

\* C1: a session that followed the graph to end_call and ended, with no
\* HubSpot call failing, has made exactly one lead-status update.
C1_OneStatusMappingPerSession ==
    (cancelled /\ node.name = "end_call" /\ NoCrmFailure) => Cardinality(StatusUpdates) = 1

\* C2: however teardown is triggered (finalize_and_update_crm at end_call,
\* the transport disconnect, or both), the session makes one CRM sync.
C2_TeardownSyncsOnce == Len(crmLog) <= 1

\* C3: a query_knowledge_base call, whether generate_content answers or
\* raises, changes neither the current node nor any field of the state, and
\* returns no next node.
C3_QueryChangesNothing ==
    [][QueryKnowledgeBase => (node' = node /\ state' = state /\ last'.next = "None")]_vars

C3_Witness ==
    /\ last.action = "query_knowledge_base" /\ last.outcome = "ok"
    /\ node.name = "collect_email"
    /\ state.meeting_status = <<"Interested - To Be Scheduled">>

\* C4: at end_call a call of any function but finalize_and_update_crm is
\* rejected as UnknownAction, and a rejected call at any node changes neither
\* the node, nor the state, nor the CRM.
C4_UnknownActionRejected ==
    [][/\ (node.name = "end_call" /\ last' # last
             /\ last'.action # "finalize_and_update_crm")
          => last'.outcome = "UnknownAction"
       /\ (last' # last /\ last'.outcome = "UnknownAction")
          => (node' = node /\ state' = state /\ crmLog' = crmLog)]_vars

C4_Witness ==
    /\ node.name = "end_call"
    /\ last.action = "capture_provider_name" /\ last.outcome = "UnknownAction"

\* C5: whenever meeting_status is 'Interested - To Be Scheduled',
\* interested_in_novated_leasing is True.
C5_InterestedOnceScheduled ==
    state.meeting_status = <<"Interested - To Be Scheduled">>
        => state.interested_in_novated_leasing = <<TRUE>>

C5_Witness ==
    /\ state.meeting_status = <<"Interested - To Be Scheduled">>
    /\ node.name = "end_call" /\ last.action = "capture_email_address"
    /\ last.outcome = "ok"

\* C6: in every CRM sync whose notes push returned, the lead status is
\* OPEN_DEAL if the interested flag pushed with the notes is True and
\* CONNECTED otherwise, and a deal is requested exactly when the flag is True
\* and the status call did not raise.
C6_StatusFollowsInterested ==
    \A i \in DOMAIN crmLog :
        LET e == crmLog[i]
            interested == e.notes["Interested"] = <<TRUE>>
        IN  e.notes_result = "ok" =>
              /\ e.status = IF interested THEN "OPEN_DEAL" ELSE "CONNECTED"
              /\ (e.deal_result # "skipped") <=> (interested /\ e.status_result # "raise")

C6_Witness ==
    /\ \E i \in DOMAIN crmLog :
          crmLog[i].site = "finalize" /\ crmLog[i].status = "OPEN_DEAL"
          /\ crmLog[i].deal_result = "ok"
    /\ \E i \in DOMAIN crmLog :
          crmLog[i].site = "disconnect" /\ crmLog[i].status = "OPEN_DEAL"
          /\ crmLog[i].deal_result = "ok"

\* C7: once the transport has disconnected, at whatever node, the last CRM
\* sync is the disconnect handler's, made for the session's contact from the
\* state as it stands; if the meeting question was never answered and the
\* notes push returned, the status is CONNECTED and no deal is requested.
C7_DisconnectSyncsCurrentState ==
    cancelled =>
        /\ Len(crmLog) > 0
        /\ LET e == crmLog[Len(crmLog)]
           IN  /\ e.site = "disconnect"
               /\ e.contact = <<contactId>>
               /\ e.notes["Manager Name"] = state.manager_name
               /\ e.notes["Company Name"] = state.company_name
               /\ e.notes["Current Provider"] = state.current_provider
               /\ e.notes["Meeting Status"] = state.meeting_status
               /\ e.notes["Meeting Day/Time"] = state.meeting_day_time
               /\ e.notes["Email Address"] = state.email_address
               /\ e.notes["Interested"] = state.interested_in_novated_leasing
               /\ e.notes["Has Existing Provider"] = state.has_existing_provider
               /\ (state.meeting_status = <<"Not Discussed">> /\ e.notes_result = "ok")
                     => (e.status = "CONNECTED" /\ e.deal_result = "skipped")

C7_Witness ==
    /\ cancelled /\ node.name = "ask_provider"
    /\ state.meeting_status = <<"Not Discussed">>
    /\ Len(crmLog) = 1 /\ crmLog[1].status = "CONNECTED" /\ crmLog[1].status_result = "ok"

\* C8: finalize_and_update_crm returns its acknowledgment and no next node
\* whatever the HubSpot calls do; no exception escapes it and the node stays
\* end_call.
C8_FinalizeAlwaysReturns ==
    (last.action = "finalize_and_update_crm" /\ last.outcome # "UnknownAction") =>
        /\ last.outcome = "ok"
        /\ last.text = <<"Cheers for your time!">>
        /\ last.next = "None"
        /\ node.name = "end_call"

C8_Witness ==
    /\ last.action = "finalize_and_update_crm" /\ last.outcome = "ok"
    /\ \E i \in DOMAIN crmLog :
          crmLog[i].site = "finalize" /\ crmLog[i].deal_result = "raise"
          /\ crmLog[i].error_logged

\* C9: when generate_content raises, query_knowledge_base returns the
\* fallback text and no next node, no exception escapes, and node and state
\* are as before the call.
C9_FallbackOnFailure ==
    [][(last' # last /\ last'.action = "query_knowledge_base" /\ last'.gen = "raise")
       => (last'.outcome = "ok" /\ last'.text = FallbackResponse /\ last'.next = "None"
           /\ node' = node /\ state' = state)]_vars

C9_Witness ==
    /\ last.action = "query_knowledge_base" /\ last.gen = "raise"
    /\ last.text = FallbackResponse
    /\ node.name = "scenario_a_pitch"

\* C10 as claimed: whatever node is current offers query_knowledge_base.
C10_QueryOnEveryNode ==
    node # NoNode => "query_knowledge_base" \in node.functions

\* C10 amended: every node but end_call offers query_knowledge_base, and
\* end_call offers finalize_and_update_crm alone.
C10_QueryOnEveryNodeButEndCall ==
    /\ (node # NoNode /\ node.name # "end_call") => "query_knowledge_base" \in node.functions
    /\ node.name = "end_call" => node.functions = {"finalize_and_update_crm"}

C10_Witness ==
    /\ node.name = "end_call"
    /\ last.action = "query_knowledge_base" /\ last.outcome = "UnknownAction"

\* ------------------------------------------------------------------ graph

\* a node as the graph names it: collect_email is one node name used for two
\* purposes, told apart by the purpose its task message carries
NodeKey(n) ==
    IF n.name = "collect_email"
    THEN IF n.purpose = "send you the meeting invite"
         THEN "collect_email(for_meeting)" ELSE "collect_email(for_summary)"
    ELSE n.name

GraphEdges ==
    { <<"None", "initial_greeting">>,
      <<"initial_greeting", "ask_provider">>,
      <<"ask_provider", "ask_provider_name">>,
      <<"ask_provider", "scenario_b_pitch">>,
      <<"ask_provider_name", "scenario_a_pitch">>,
      <<"scenario_a_pitch", "collect_email(for_meeting)">>,
      <<"scenario_a_pitch", "offer_email_summary">>,
      <<"scenario_b_pitch", "collect_email(for_meeting)">>,
      <<"scenario_b_pitch", "offer_email_summary">>,
      <<"offer_email_summary", "collect_email(for_summary)">>,
      <<"offer_email_summary", "end_call">>,
      <<"collect_email(for_meeting)", "end_call">>,
      <<"collect_email(for_summary)", "end_call">> }

\* C11: every change of the current node is an edge of the fixed graph
\* initial_greeting -> ask_provider -> {ask_provider_name -> scenario_a_pitch |
\* scenario_b_pitch} -> {collect_email for the meeting | offer_email_summary ->
\* {collect_email for the summary | end_call}} -> end_call; the first node
\* installed is initial_greeting, and no handler installs a node that is not a
\* successor of the node that offered it.
C11_NodeChangesFollowGraph ==
    [][node' # node => <<NodeKey(node), NodeKey(node')>> \in GraphEdges]_vars

\* the decline-decline path has been walked to its end: offer_email_summary
\* handed over to end_call
C11_Witness ==
    /\ node = create_end_call_node
    /\ last.action = "handle_email_summary_response"
    /\ last.outcome = "ok"
    /\ state.meeting_status = <<"Declined">>

Dispatches(name, r) == Callable(name) /\ Apply(name, r, "")

\* the values a caller can supply: the non-empty strings among the inputs
Supplied(S) == {v \in S : TruthyStr(v)}

\* C13: scenario A from end to end, for any supplied name, organisation,
\* provider, date, time and email: capture_manager_details(name, org) moves
\* to ask_provider; handle_has_provider_response(true) moves to
\* ask_provider_name; capture_provider_name(p) moves to scenario_a_pitch;
\* handle_meeting_response(true, date, time) moves to collect_email for the
\* meeting with meeting_status "Interested - To Be Scheduled" and the combined
\* field "<date> at <time>"; capture_email_address(e) moves to end_call; each
\* captured value is stored in its field.
C13_ScenarioA ==
    [][ /\ \A m \in Supplied(NameArgs), c \in Supplied(CompanyArgs) :
              Dispatches("capture_manager_details",
                         capture_manager_details(
                             [manager_name |-> m, company_name |-> c], state))
              => /\ NodeKey(node') = "ask_provider"
                 /\ state'.manager_name = m
                 /\ state'.company_name = c
        /\ Dispatches("handle_has_provider_response",
                      handle_has_provider_response([has_provider |-> <<TRUE>>], state))
           => /\ NodeKey(node') = "ask_provider_name"
              /\ state'.has_existing_provider = <<TRUE>>
        /\ \A p \in Supplied(ProviderArgs) :
              Dispatches("capture_provider_name",
                         capture_provider_name([provider_name |-> p], state))
              => /\ NodeKey(node') = "scenario_a_pitch"
                 /\ state'.current_provider = p
        /\ \A d \in Supplied(DateArgs), t \in Supplied(TimeArgs) :
              Dispatches("handle_meeting_response",
                         handle_meeting_response(
                             [accepts_meeting |-> <<TRUE>>, meeting_date |-> d,
                              meeting_time |-> t], state))
              => /\ NodeKey(node') = "collect_email(for_meeting)"
                 /\ state'.meeting_status = <<"Interested - To Be Scheduled">>
                 /\ state'.meeting_date = d
                 /\ state'.meeting_time = t
                 /\ state'.meeting_day_time = <<d[1] \o " at " \o t[1]>>
        /\ \A e \in Supplied(EmailArgs) :
              Dispatches("capture_email_address",
                         capture_email_address([email |-> e], state))
              => /\ NodeKey(node') = "end_call"
                 /\ state'.email_address = e ]_vars

\* scenario A has been walked to end_call and every captured value is in
\* its field
C13_Witness ==
    /\ node = create_end_call_node
    /\ last.action = "capture_email_address"
    /\ state.manager_name = <<"Sam">>
    /\ state.company_name = <<"Acme">>
    /\ state.has_existing_provider = <<TRUE>>
    /\ state.current_provider = <<"Fleetcare">>
    /\ state.meeting_status = <<"Interested - To Be Scheduled">>
    /\ state.meeting_date = <<"next Tuesday">>
    /\ state.meeting_time = <<"10am">>
    /\ state.meeting_day_time = <<"next Tuesday at 10am">>
    /\ state.email_address = <<"sam@acme.com">>

\* C14: scenario B, declining twice: from ask_provider,
\* handle_has_provider_response(false) moves to scenario_b_pitch and sets
\* current_provider to the no-provider sentinel (the string "None");
\* handle_meeting_response(false) moves to offer_email_summary with
\* interested false and meeting_status "Declined";
\* handle_email_summary_response(false) moves to end_call with interested
\* still false and send_summary_email false.
C14_ScenarioBDecline ==
    [][ /\ (/\ NodeKey(node) = "ask_provider"
            /\ Dispatches("handle_has_provider_response",
                          handle_has_provider_response([has_provider |-> <<FALSE>>], state)))
           => /\ NodeKey(node') = "scenario_b_pitch"
              /\ state'.current_provider = <<"None">>
              /\ state'.has_existing_provider = <<FALSE>>
        /\ Dispatches("handle_meeting_response",
                      handle_meeting_response([accepts_meeting |-> <<FALSE>>], state))
           => /\ NodeKey(node') = "offer_email_summary"
              /\ state'.interested_in_novated_leasing = <<FALSE>>
              /\ state'.meeting_status = <<"Declined">>
        /\ Dispatches("handle_email_summary_response",
                      handle_email_summary_response([wants_summary |-> <<FALSE>>], state))
           => /\ NodeKey(node') = "end_call"
              /\ state'.interested_in_novated_leasing = <<FALSE>>
              /\ state'.send_summary_email = <<FALSE>> ]_vars

\* scenario B has been walked to end_call through both declines
C14_Witness ==
    /\ node = create_end_call_node
    /\ last.action = "handle_email_summary_response"
    /\ state.has_existing_provider = <<FALSE>>
    /\ state.current_provider = <<"None">>
    /\ state.meeting_status = <<"Declined">>
    /\ state.interested_in_novated_leasing = <<FALSE>>
    /\ state.send_summary_email = <<FALSE>>

\* C16: on every path that respects the graph, a call of
\* handle_email_summary_response with wants_summary false (or without it)
\* leaves interested_in_novated_leasing at the value it had immediately before
\* the call: the email-summary step does not change the flag.
C16_SummaryDeclineKeepsInterested ==
    [][\A present \in SUBSET {"wants_summary"} : \A b \in BoolArgs :
          (/\ ~TruthyBool(args_get(MkArgs(present, [wants_summary |-> b]),
                                   "wants_summary", <<FALSE>>))
           /\ Dispatches("handle_email_summary_response",
                         handle_email_summary_response(
                             MkArgs(present, [wants_summary |-> b]), state)))
          => state'.interested_in_novated_leasing = state.interested_in_novated_leasing]_vars

\* the summary has been declined at offer_email_summary, with the flag as the
\* declined meeting left it
C16_Witness ==
    /\ last.action = "handle_email_summary_response"
    /\ last.next = "end_call"
    /\ state.send_summary_email = <<FALSE>>
    /\ state.interested_in_novated_leasing = <<FALSE>>
    /\ state.meeting_status = <<"Declined">>

\* C19: at session start the session state holds the contact id and every
\* other field at its default (meeting_status "Not Discussed", interested
\* false, send_summary_email false, has_existing_provider unknown, the
\* captured facts, the meeting date, time and combined field and the email
\* unset), and the node installed on client connect is initial_greeting; no
\* handler has run before this state.
C19_SessionStart ==
    last = NoCall =>
        /\ state = [contact_id |-> <<contactId>>,
                    manager_name |-> None,
                    company_name |-> None,
                    current_provider |-> None,
                    meeting_status |-> <<"Not Discussed">>,
                    meeting_date |-> None,
                    meeting_time |-> None,
                    meeting_day_time |-> None,
                    email_address |-> None,
                    interested_in_novated_leasing |-> <<FALSE>>,
                    send_summary_email |-> <<FALSE>>,
                    has_existing_provider |-> None]
        /\ NodeKey(node) \in {"None", "initial_greeting"}
        /\ Finalized = 0

\* the client has connected and no function call has been dispatched yet
C19_Witness ==
    /\ last = NoCall
    /\ node = create_initial_greeting_node
    /\ state.contact_id = <<contactId>>
    /\ ~cancelled

\* ------------------------------------------------- handlers as functions

\* how often the call under study is issued
MaxRuns == 2

\* Session states a handler may find: the facts captured or not, the meeting
\* not discussed, scheduled, declined, or declined after it was scheduled,
\* and every value of the flags.
StartStates ==
    { [contact_id |-> <<"c1">>,
       manager_name |-> who[1],
       company_name |-> who[2],
       current_provider |-> prov,
       meeting_status |-> meet[1],
       meeting_date |-> meet[2],
       meeting_time |-> meet[3],
       meeting_day_time |-> meet[4],
       email_address |-> mail,
       interested_in_novated_leasing |-> <<int>>,
       send_summary_email |-> <<snd>>,
       has_existing_provider |-> has] :
         who \in {<<None, None>>, <<(<<"Pat">>), (<<"Initech">>)>>},
         prov \in {None, <<"None">>, <<"LeasePlan">>},
         meet \in {<<(<<"Not Discussed">>), None, None, None>>,
                   <<(<<"Interested - To Be Scheduled">>), (<<"Friday">>), (<<"9am">>),
                     (<<"Friday at 9am">>)>>,
                   <<(<<"Declined">>), None, None, None>>,
                   <<(<<"Declined">>), (<<"Friday">>), (<<"9am">>), (<<"Friday at 9am">>)>>},
         mail \in {None, <<"pat@initech.com">>},
         int \in BOOLEAN, snd \in BOOLEAN,
         has \in {None, <<TRUE>>, <<FALSE>>} }

\* the handler registered under a function name
Handler(name, args, st) ==
    CASE name = "capture_manager_details" -> capture_manager_details(args, st)
      [] name = "handle_has_provider_response" -> handle_has_provider_response(args, st)
      [] name = "capture_provider_name" -> capture_provider_name(args, st)
      [] name = "handle_meeting_response" -> handle_meeting_response(args, st)
      [] name = "handle_email_summary_response" -> handle_email_summary_response(args, st)
      [] name = "capture_email_address" -> capture_email_address(args, st)

\* one invocation of a handler on the current state, whatever the node: the
\* state it leaves, the node it returns, and the call with its arguments
Invoke(name, args) ==
    LET r == Handler(name, args, state)
    IN  /\ state' = r.state
        /\ node' = r.next
        /\ last' = [action |-> name, outcome |-> IF r.raised THEN "raised" ELSE "ok",
                    text |-> r.text, next |-> r.next.name, gen |-> ""]
        /\ issued' = [name |-> name, args |-> args, runs |-> issued.runs + 1]
        /\ UNCHANGED <<contactId, crmLog, cancelled, context, sent, tasks, hops, ended,
                       periphery>>

HandlerInit ==
    /\ contactId = "c1"
    /\ state \in StartStates
    /\ node = NoNode
    /\ crmLog = <<>>
    /\ last = NoCall
    /\ cancelled = FALSE
    /\ context = <<>>
    /\ sent = <<>>
    /\ issued = NoIssue
    /\ tasks = NoTasks
    /\ hops = 0
    /\ ended = FALSE
    /\ PeripheryAtRest

IssueCaptureManagerDetails ==
    /\ issued.runs = 0
    /\ \E present \in SUBSET {"manager_name", "company_name"} :
       \E m \in NameArgs, c \in CompanyArgs :
          Invoke("capture_manager_details",
                 MkArgs(present, [manager_name |-> m, company_name |-> c]))

IssueHandleHasProviderResponse ==
    /\ issued.runs = 0
    /\ \E present \in SUBSET {"has_provider"} : \E b \in BoolArgs :
          Invoke("handle_has_provider_response", MkArgs(present, [has_provider |-> b]))

IssueCaptureProviderName ==
    /\ issued.runs = 0
    /\ \E present \in SUBSET {"provider_name"} : \E p \in ProviderArgs :
          Invoke("capture_provider_name", MkArgs(present, [provider_name |-> p]))

IssueHandleMeetingResponse ==
    /\ issued.runs = 0
    /\ \E present \in SUBSET {"accepts_meeting", "meeting_date", "meeting_time"} :
       \E b \in BoolArgs, d \in DateArgs, t \in TimeArgs :
          Invoke("handle_meeting_response",
                 MkArgs(present, [accepts_meeting |-> b, meeting_date |-> d,
                                  meeting_time |-> t]))

IssueHandleEmailSummaryResponse ==
    /\ issued.runs = 0
    /\ \E present \in SUBSET {"wants_summary"} : \E b \in BoolArgs :
          Invoke("handle_email_summary_response", MkArgs(present, [wants_summary |-> b]))

IssueCaptureEmailAddress ==
    /\ issued.runs = 0
    /\ \E present \in SUBSET {"email"} : \E e \in EmailArgs :
          Invoke("capture_email_address", MkArgs(present, [email |-> e]))

\* the same call, with the same arguments, once more
Reissue ==
    /\ issued.runs \in 1..(MaxRuns - 1)
    /\ Invoke(issued.name, issued.args)

HandlerNext ==
    \/ IssueCaptureManagerDetails
    \/ IssueHandleHasProviderResponse
    \/ IssueCaptureProviderName
    \/ IssueHandleMeetingResponse
    \/ IssueHandleEmailSummaryResponse
    \/ IssueCaptureEmailAddress
    \/ Reissue

HandlerSpec == HandlerInit /\ [][HandlerNext]_vars

\* the call under study did not carry the argument: the key is absent
Missing(key) == key \notin DOMAIN issued.args

\* the call under study did not supply the argument: absent, or null
NotSupplied(key) == Missing(key) \/ issued.args[key] = None

\* C15: handle_meeting_response called with accepts_meeting true and neither
\* a date nor a time sets meeting_date, meeting_time and meeting_day_time to
\* "To be confirmed"; none of the three is left null or absent.
C15_DefaultSentinels ==
    (/\ issued.name = "handle_meeting_response"
     /\ ~Missing("accepts_meeting") /\ issued.args["accepts_meeting"] = <<TRUE>>
     /\ NotSupplied("meeting_date") /\ NotSupplied("meeting_time"))
    => /\ state.meeting_date = <<"To be confirmed">>
       /\ state.meeting_time = <<"To be confirmed">>
       /\ state.meeting_day_time = <<"To be confirmed">>

\* a meeting accepted with no date and no time over a state that held the
\* date and time of an earlier answer
C15_Witness ==
    /\ issued.name = "handle_meeting_response"
    /\ issued.args = [accepts_meeting |-> <<TRUE>>]
    /\ issued.runs = 1
    /\ state.meeting_status = <<"Interested - To Be Scheduled">>
    /\ state.meeting_day_time = <<"To be confirmed">>
    /\ state.manager_name = <<"Pat">>

\* C17: each of the six transitioning handlers is idempotent: from any
\* session state, the second of two calls in a row with the same arguments
\* leaves the session state the first call left and returns the same next
\* node.
C17_HandlersIdempotent ==
    [][(issued.runs >= 1 /\ issued'.runs = issued.runs + 1)
          => /\ issued'.name = issued.name
             /\ state' = state
             /\ node' = node
             /\ last'.next = last.next]_vars

\* a call has been issued twice
C17_Witness ==
    /\ issued.runs = 2
    /\ issued.name = "handle_meeting_response"
    /\ "meeting_date" \in DOMAIN issued.args
    /\ state.meeting_status = <<"Interested - To Be Scheduled">>
    /\ node = create_collect_email_node(TRUE)

\* C18: a handler called without one of its arguments does not fail: it
\* writes a sentinel to the field the argument feeds ("Not provided" for the
\* name, the organisation and the email, "Not specified" for the provider,
\* "To be confirmed" for the date and time of an accepted meeting), leaves no
\* such field absent or null, and makes its normal transition.
C18_LenientValidation ==
    /\ issued.runs >= 1 => last.outcome = "ok" /\ DOMAIN state = DOMAIN initial_state(None)
    /\ issued.name = "capture_manager_details" =>
          /\ Missing("manager_name") => state.manager_name = <<"Not provided">>
          /\ Missing("company_name") => state.company_name = <<"Not provided">>
          /\ NodeKey(node) = "ask_provider"
    /\ issued.name = "capture_provider_name" =>
          /\ Missing("provider_name") => state.current_provider = <<"Not specified">>
          /\ NodeKey(node) = "scenario_a_pitch"
    /\ issued.name = "capture_email_address" =>
          /\ Missing("email") => state.email_address = <<"Not provided">>
          /\ NodeKey(node) = "end_call"
    /\ (/\ issued.name = "handle_meeting_response"
        /\ ~Missing("accepts_meeting") /\ issued.args["accepts_meeting"] = <<TRUE>>) =>
          /\ Missing("meeting_date") => state.meeting_date = <<"To be confirmed">>
          /\ Missing("meeting_time") => state.meeting_time = <<"To be confirmed">>
          /\ state.meeting_day_time # None
          /\ NodeKey(node) = "collect_email(for_meeting)"
    /\ (issued.name = "handle_meeting_response" /\ Missing("accepts_meeting")) =>
          /\ state.meeting_status = <<"Declined">>
          /\ NodeKey(node) = "offer_email_summary"
    /\ (issued.name = "handle_has_provider_response" /\ Missing("has_provider")) =>
          /\ state.has_existing_provider = <<FALSE>>
          /\ NodeKey(node) = "scenario_b_pitch"
    /\ (issued.name = "handle_email_summary_response" /\ Missing("wants_summary")) =>
          /\ state.send_summary_email = <<FALSE>>
          /\ NodeKey(node) = "end_call"

\* capture_email_address called with no argument at all
C18_Witness ==
    /\ issued.name = "capture_email_address"
    /\ DOMAIN issued.args = {}
    /\ issued.runs = 1
    /\ state.email_address = <<"Not provided">>
    /\ node = create_end_call_node

\* ------------------------------------------- conversation history for RAG

\* how many messages the context holds at most
MaxContext == 5

\* messages[-3:]
HistoryTurns == 3

\* The kinds of message an LLM context holds: system and task messages, user
\* and assistant turns, assistant messages carrying tool_calls, tool results.
MessageKinds ==
    { [role |-> "system", tool_calls |-> FALSE],
      [role |-> "user", tool_calls |-> FALSE],
      [role |-> "assistant", tool_calls |-> FALSE],
      [role |-> "assistant", tool_calls |-> TRUE],
      [role |-> "tool", tool_calls |-> FALSE] }

\* a message of kind k whose content is c
Message(k, c) == [role |-> k.role, tool_calls |-> k.tool_calls, content |-> c]

is_tool_call(turn) == turn.role = "tool" \/ turn.tool_calls

is_conversation_turn(msg) == msg.role \in {"user", "assistant"}

is_not_tool_call(turn) == ~is_tool_call(turn)

\* s[-n:]
LastOf(s, n) == IF Len(s) <= n THEN s ELSE SubSeq(s, Len(s) - n + 1, Len(s))

\* variant: the slice is taken before the tool calls are filtered out
conversation_history_slice_first(all_messages) ==
    LET conversation_turns == SelectSeq(all_messages, is_conversation_turn)
    IN  SelectSeq(LastOf(conversation_turns, HistoryTurns), is_not_tool_call)

\* the messages query_knowledge_base puts in the prompt as conversation
\* history
conversation_history(all_messages) ==
    LET conversation_turns == SelectSeq(all_messages, is_conversation_turn)
        messages == SelectSeq(conversation_turns, is_not_tool_call)
    IN  LastOf(messages, HistoryTurns)

\* no generation request made yet
NoRequest == [at |-> 0, messages |-> <<>>, made |-> FALSE]

KBInit ==
    /\ contactId = "c1"
    /\ state = initial_state(<<contactId>>)
    /\ node = create_initial_greeting_node
    /\ crmLog = <<>>
    /\ last = NoCall
    /\ cancelled = FALSE
    /\ context = <<>>
    /\ sent = NoRequest
    /\ issued = NoIssue
    /\ tasks = NoTasks
    /\ hops = 0
    /\ ended = FALSE
    /\ PeripheryAtRest

\* the context aggregator appends a message to the context; its content is
\* told apart from the others by its position
AppendMessage ==
    /\ Len(context) < MaxContext
    /\ \E k \in MessageKinds :
          context' = Append(context, Message(k, Len(context) + 1))
    /\ UNCHANGED <<contactId, state, node, crmLog, last, cancelled, sent, issued, tasks, hops, ended,
                   periphery>>

\* query_knowledge_base with the history it reads from the context; sent
\* keeps the history and the length of the context it was read from
KBQueryKnowledgeBase ==
    /\ Callable("query_knowledge_base")
    /\ \E q \in Questions, gen \in GenOutcomes :
          LET r == query_knowledge_base([question |-> q], state, gen)
          IN  /\ state' = r.state
              /\ node' = IF r.raised \/ r.next = NoNode THEN node ELSE r.next
              /\ last' = [action |-> "query_knowledge_base",
                          outcome |-> IF r.raised THEN "raised" ELSE "ok",
                          text |-> r.text, next |-> r.next.name, gen |-> gen]
    /\ sent' = [at |-> Len(context), messages |-> conversation_history(context),
                made |-> TRUE]
    /\ UNCHANGED <<contactId, crmLog, cancelled, context, issued, tasks, hops, ended,
                   periphery>>

KBNext ==
    \/ AppendMessage
    \/ KBQueryKnowledgeBase

KBSpec == KBInit /\ [][KBNext]_vars

\* the context as the last request found it
ContextRead == SubSeq(context, 1, sent.at)

\* positions in ContextRead of the user and assistant turns that are not
\* tool turns
TurnPositions ==
    {i \in 1..sent.at :
        /\ ContextRead[i].role \in {"user", "assistant"}
        /\ ContextRead[i].role # "tool"
        /\ ~ContextRead[i].tool_calls}

\* the last three of them
LastTurnPositions ==
    {i \in TurnPositions : Cardinality({j \in TurnPositions : j > i}) < 3}

\* C20: query_knowledge_base passes to the generation call exactly the last
\* three conversation turns that are not tool turns (role "tool", or carrying
\* tool_calls), in their original order, oldest first; all of them when there
\* are fewer than three; and never a tool turn.
C20_LastThreeTurns ==
    sent.made =>
        /\ Len(sent.messages) = Cardinality(LastTurnPositions)
        /\ \A i \in LastTurnPositions :
              sent.messages[Cardinality({j \in LastTurnPositions : j <= i})] = ContextRead[i]
        /\ \A n \in 1..Len(sent.messages) :
              sent.messages[n].role # "tool" /\ ~sent.messages[n].tool_calls

\* a request made over a context of five messages where a tool call and its
\* result sit among the last three: the history reaches back past them
C20_Witness ==
    /\ sent.made
    /\ sent.at = 5
    /\ [n \in 1..5 |-> context[n].role] = <<"user", "assistant", "assistant", "tool", "user">>
    /\ context[3].tool_calls
    /\ [n \in 1..Len(sent.messages) |-> sent.messages[n].content] = <<1, 2, 5>>

\* ------------------------------------------------------ teardown CRM sync

\* the CRM syncs the disconnect handler made
DisconnectSyncs == {i \in DOMAIN crmLog : crmLog[i].site = "disconnect"}

\* C21: the CRM sync of the disconnect handler is the operation
\* finalize_and_update_crm performs: for the session state it reads, it
\* pushes the same full field map (Meeting Date and Meeting Time as well as
\* the combined field) to the same contact and takes the same lead-status
\* and deal decision.
C21_DisconnectSyncIsFinalizeSync ==
    \A i \in DisconnectSyncs :
        LET e == crmLog[i]
            f == FinalizeSync(state, state.contact_id,
                              [notes |-> e.notes_result,
                               status |-> IF e.status_result = "skipped" THEN "ok"
                                          ELSE e.status_result,
                               deal |-> IF e.deal_result = "skipped" THEN "ok"
                                        ELSE e.deal_result])
        IN  /\ e.contact = f.contact
            /\ e.status = f.status
            /\ e.deal_result = f.deal_result
            /\ DOMAIN e.notes = DOMAIN f.notes
            /\ \A k \in DOMAIN e.notes : e.notes[k] = f.notes[k]

\* C22: a failing CRM sync does not block teardown: when the transport
\* disconnects, whether add_call_notes, update_contact_lead_status and
\* create_deal_for_contact return or raise, no exception escapes the
\* disconnect handler and the pipeline task is cancelled.
C22_TeardownSurvivesCrmFailure ==
    [][ /\ (~cancelled /\ node # NoNode) =>
              \A o \in CrmOutcomes :
                 LET r == on_client_disconnected(state, contactId, o)
                 IN  ~r.raised /\ r.cancelled
        /\ (DisconnectSyncs' # DisconnectSyncs) => cancelled' ]_vars

\* the transport disconnected, add_call_notes raised, and the task is
\* cancelled
C22_Witness ==
    /\ cancelled
    /\ Len(crmLog) > 0
    /\ crmLog[Len(crmLog)].site = "disconnect"
    /\ crmLog[Len(crmLog)].notes_result = "raise"
    /\ crmLog[Len(crmLog)].error_logged

\* ------------------------------------------------------------ state frame

\* the handlers that return a next node
TransitioningHandlers ==
    {"capture_manager_details", "handle_has_provider_response", "capture_provider_name",
     "handle_meeting_response", "handle_email_summary_response", "capture_email_address"}

\* C24: only the transitioning handlers write the session state:
\* finalize_and_update_crm, the disconnect handler and query_knowledge_base
\* leave it as it was, the audit snapshot log_lead_data taken inside
\* capture_email_address changes no field, and every step that changes the
\* state is the dispatch of a transitioning handler.
C24_OnlyHandlersWriteState ==
    [][ /\ (FinalizeAndUpdateCrm \/ OnClientDisconnected \/ QueryKnowledgeBase)
              => state' = state
        /\ CaptureEmailAddress =>
              \A k \in DOMAIN state \ {"email_address"} : state'[k] = state[k]
        /\ state' # state =>
              /\ last'.action \in TransitioningHandlers
              /\ last'.outcome = "ok"
              /\ hops' = hops + 1 ]_vars

\* finalize_and_update_crm synced a session that had captured an email for
\* the summary, and the transport then disconnected: the state still holds
\* what the handlers wrote
C24_Witness ==
    /\ cancelled
    /\ Len(crmLog) = 2
    /\ crmLog[1].site = "finalize" /\ crmLog[2].site = "disconnect"
    /\ state.send_summary_email = <<TRUE>>
    /\ state.email_address = <<"sam@acme.com">>
    /\ state.manager_name = <<"Sam">>

\* C29: declining the meeting and taking the summary: at offer_email_summary,
\* handle_email_summary_response(true) sets send_summary_email, leaves
\* interested_in_novated_leasing as it was and moves to collect_email for the
\* summary; capture_email_address then stores the address and moves to
\* end_call; every CRM sync of a session on this path whose notes push
\* returned sets the status CONNECTED and requests no deal.
C29_DeclineThenSummary ==
    /\ [](state.send_summary_email = <<TRUE>> =>
             \A i \in DOMAIN crmLog :
                 crmLog[i].notes_result = "ok" =>
                     crmLog[i].status = "CONNECTED" /\ crmLog[i].deal_result = "skipped")
    /\ [][ /\ (/\ NodeKey(node) = "offer_email_summary"
               /\ Dispatches("handle_email_summary_response",
                             handle_email_summary_response([wants_summary |-> <<TRUE>>], state)))
              => /\ state'.send_summary_email = <<TRUE>>
                 /\ state'.interested_in_novated_leasing = state.interested_in_novated_leasing
                 /\ NodeKey(node') = "collect_email(for_summary)"
           /\ \A e \in Supplied(EmailArgs) :
                 (/\ NodeKey(node) = "collect_email(for_summary)"
                  /\ Dispatches("capture_email_address",
                                capture_email_address([email |-> e], state)))
                 => /\ state'.email_address = e
                    /\ state'.send_summary_email = <<TRUE>>
                    /\ NodeKey(node') = "end_call" ]_vars

\* the path has been walked to end_call and finalize_and_update_crm has set
\* the status
C29_Witness ==
    /\ node = create_end_call_node
    /\ state.meeting_status = <<"Declined">>
    /\ state.send_summary_email = <<TRUE>>
    /\ state.email_address = <<"sam@acme.com">>
    /\ Len(crmLog) = 1
    /\ crmLog[1].site = "finalize"
    /\ crmLog[1].status = "CONNECTED"
    /\ crmLog[1].status_result = "ok"
    /\ crmLog[1].deal_result = "skipped"

\* C30: in every state of a session that follows the graph,
\* interested_in_novated_leasing is true exactly when meeting_status is
\* "Interested - To Be Scheduled"; so a CRM sync requests a deal exactly when
\* the meeting was accepted (given that control reached the decision).
C30_InterestedIffScheduled ==
    /\ TruthyBool(state.interested_in_novated_leasing)
          <=> state.meeting_status = <<"Interested - To Be Scheduled">>
    /\ \A i \in DOMAIN crmLog :
          (crmLog[i].notes_result = "ok" /\ crmLog[i].status_result # "raise") =>
              (crmLog[i].deal_result # "skipped"
                  <=> crmLog[i].notes["Meeting Status"] = <<"Interested - To Be Scheduled">>)

\* a deal was created for an accepted meeting once the email was captured
C30_Witness ==
    /\ node = create_end_call_node
    /\ state.meeting_status = <<"Interested - To Be Scheduled">>
    /\ state.interested_in_novated_leasing = <<TRUE>>
    /\ state.email_address # None
    /\ \E i \in DOMAIN crmLog :
          /\ crmLog[i].deal_result = "ok"
          /\ crmLog[i].notes["Meeting Status"] = <<"Interested - To Be Scheduled">>

\* ------------------------------------------------------------ termination

\* a rank of the nodes that every edge of the graph raises
NodeRank(n) ==
    CASE NodeKey(n) = "None" -> 0
      [] NodeKey(n) = "initial_greeting" -> 1
      [] NodeKey(n) = "ask_provider" -> 2
      [] NodeKey(n) = "ask_provider_name" -> 3
      [] NodeKey(n) \in {"scenario_a_pitch", "scenario_b_pitch"} -> 4
      [] NodeKey(n) = "offer_email_summary" -> 5
      [] NodeKey(n) \in {"collect_email(for_meeting)", "collect_email(for_summary)"} -> 6
      [] NodeKey(n) = "end_call" -> 7

\* C26: the graph has no cycle and the script terminates: every node a
\* handler installs lies further down the graph than the node it replaces, so
\* no node is current twice; a session that started at initial_greeting is at
\* end_call after at least 4 and at most 6 transitions, whatever the
\* arguments; and every node before end_call offers a transitioning handler.
C26_ScriptTerminates ==
    /\ [](/\ hops <= 6
          /\ NodeKey(node) = "end_call" => hops \in 4..6
          /\ hops = 6 => NodeKey(node) = "end_call"
          /\ NodeKey(node) \notin {"None", "end_call"} =>
                node.functions \cap TransitioningHandlers # {})
    /\ [][ /\ node' # node => NodeRank(node') > NodeRank(node)
           /\ hops' # hops => (hops' = hops + 1 /\ node' # node) ]_vars

\* the shortest script has ended: four transitions, through scenario B and
\* an accepted meeting
C26_Witness ==
    /\ NodeKey(node) = "end_call"
    /\ hops = 4
    /\ state.has_existing_provider = <<FALSE>>
    /\ state.meeting_status = <<"Interested - To Be Scheduled">>

\* the session state fields a call may write, as the handlers' table lists
\* them
WritableFields(name, args) ==
    CASE name = "capture_manager_details" -> {"manager_name", "company_name"}
      [] name = "handle_has_provider_response" ->
            IF TruthyBool(args_get(args, "has_provider", <<FALSE>>))
            THEN {"has_existing_provider"}
            ELSE {"has_existing_provider", "current_provider"}
      [] name = "capture_provider_name" -> {"current_provider"}
      [] name = "handle_meeting_response" ->
            IF TruthyBool(args_get(args, "accepts_meeting", <<FALSE>>))
            THEN {"meeting_status", "meeting_date", "meeting_time", "meeting_day_time",
                  "interested_in_novated_leasing"}
            ELSE {"meeting_status", "interested_in_novated_leasing"}
      [] name = "handle_email_summary_response" ->
            IF TruthyBool(args_get(args, "wants_summary", <<FALSE>>))
            THEN {"send_summary_email"}
            ELSE {"send_summary_email", "interested_in_novated_leasing"}
      [] name = "capture_email_address" -> {"email_address"}

\* C28: each handler writes only its own fields and leaves every other field
\* of the session state as it was: capture_manager_details manager_name and
\* company_name; handle_has_provider_response has_existing_provider (and
\* current_provider when the answer is no); capture_provider_name
\* current_provider; a declined handle_meeting_response meeting_status and
\* interested_in_novated_leasing (the date, the time and the combined field
\* keep their values); handle_email_summary_response send_summary_email (and
\* the interest flag when the answer is no); capture_email_address
\* email_address.
C28_HandlersWriteOnlyTheirFields ==
    [][issued'.runs = issued.runs + 1 =>
          /\ DOMAIN state' = DOMAIN state
          /\ \A k \in DOMAIN state \ WritableFields(issued'.name, issued'.args) :
                state'[k] = state[k]]_vars

\* a meeting declined over a state that held the date and time of an earlier
\* answer, which are still there
C28_Witness ==
    /\ issued.name = "handle_meeting_response"
    /\ issued.args = [accepts_meeting |-> <<FALSE>>]
    /\ issued.runs = 1
    /\ state.meeting_status = <<"Declined">>
    /\ state.meeting_date = <<"Friday">>
    /\ state.meeting_time = <<"9am">>
    /\ state.meeting_day_time = <<"Friday at 9am">>
    /\ state.email_address = <<"pat@initech.com">>

\* --------------------------------------------------------------- directive

\* C25: the end_conversation directive is issued only while end_call is the
\* current node and only after finalize_and_update_crm, and with it the CRM
\* sync, has completed there; no other node declares the post-action, and the
\* directive is never issued before finalize_and_update_crm has run.
C25_TerminateOnlyAfterFinalize ==
    /\ [](/\ "end_conversation" \in node.post_actions => NodeKey(node) = "end_call"
          /\ ended =>
                /\ NodeKey(node) = "end_call"
                /\ Finalized >= 1)
    /\ [][(ended' /\ ~ended) =>
             /\ NodeKey(node) = "end_call"
             /\ last.action = "finalize_and_update_crm"
             /\ last.outcome = "ok"
             /\ crmLog # <<>> /\ crmLog[Len(crmLog)].site = "finalize"]_vars

\* the directive has been issued at end_call after the sync
C25_Witness ==
    /\ ended
    /\ last.action = "finalize_and_update_crm"
    /\ node = create_end_call_node
    /\ ~cancelled
    /\ Len(crmLog) = 1
    /\ crmLog[1].site = "finalize"
    /\ crmLog[1].notes_result = "ok"

\* -------------------------------------------------------------- event loop

\* The handlers, the query and the disconnect handler are coroutines of one
\* asyncio event loop: a coroutine that runs keeps the loop until it awaits
\* or returns.  handle_meeting_response is followed statement by statement
\* (tasks.handler is the line it stands at), query_knowledge_base is split at
\* its await of generate_content, the other handlers have no await and are
\* taken whole.

\* variant: handle_meeting_response awaits after writing meeting_status
AwaitPoints_after_status == {"l162"}

\* the lines of handle_meeting_response at which it awaits: there is none
AwaitPoints == {}

\* the loop is free for another coroutine to run
LoopFree == tasks.handler \in ({"idle"} \cup AwaitPoints)

\* the statement of handle_meeting_response at line pc: the line control
\* reaches next and the state the statement leaves
MeetingStatement(pc, args, st) ==
    LET accepts_meeting == args_get(args, "accepts_meeting", <<FALSE>>)
        meeting_date == args_get(args, "meeting_date", None)
        meeting_time == args_get(args, "meeting_time", None)
    IN  CASE pc = "l158" ->
               [pc |-> IF TruthyBool(accepts_meeting) THEN "l159" ELSE "l179", state |-> st]
          [] pc = "l159" ->
               [pc |-> "l162",
                state |-> [st EXCEPT !.meeting_status = <<"Interested - To Be Scheduled">>]]
          [] pc = "l162" ->
               [pc |-> "l163",
                state |-> [st EXCEPT !.meeting_date =
                              IF TruthyStr(meeting_date) THEN meeting_date
                              ELSE <<"To be confirmed">>]]
          [] pc = "l163" ->
               [pc |-> "l166",
                state |-> [st EXCEPT !.meeting_time =
                              IF TruthyStr(meeting_time) THEN meeting_time
                              ELSE <<"To be confirmed">>]]
          [] pc = "l166" ->
               [pc |-> "l173",
                state |-> [st EXCEPT !.meeting_day_time =
                              IF TruthyStr(meeting_date) /\ TruthyStr(meeting_time)
                              THEN <<meeting_date[1] \o " at " \o meeting_time[1]>>
                              ELSE IF TruthyStr(meeting_date) THEN meeting_date
                              ELSE <<"To be confirmed">>]]
          [] pc = "l173" ->
               [pc |-> "l177",
                state |-> [st EXCEPT !.interested_in_novated_leasing = <<TRUE>>]]
          [] pc = "l179" ->
               [pc |-> "l180", state |-> [st EXCEPT !.meeting_status = <<"Declined">>]]
          [] pc = "l180" ->
               [pc |-> "l184",
                state |-> [st EXCEPT !.interested_in_novated_leasing = <<FALSE>>]]

\* the lines that hold a statement, and the two return statements
MeetingLines == {"l158", "l159", "l162", "l163", "l166", "l173", "l179", "l180"}

MeetingReturn(pc) ==
    IF pc = "l177"
    THEN [text |-> <<"Brilliant! I'll get that sorted for you.">>,
          next |-> create_collect_email_node(TRUE)]
    ELSE [text |-> <<"No worries at all, mate.">>,
          next |-> create_offer_email_summary_node]

LoopInit ==
    /\ contactId = "c1"
    /\ state = initial_state(<<contactId>>)
    /\ node = NoNode
    /\ crmLog = <<>>
    /\ last = NoCall
    /\ cancelled = FALSE
    /\ context = <<>>
    /\ sent = <<>>
    /\ issued = NoIssue
    /\ tasks = NoTasks
    /\ hops = 0
    /\ ended = FALSE
    /\ PeripheryAtRest

\* the flow manager starts the handler coroutine of a handle_meeting_response
\* call; the handler reads its arguments
LoopDispatchMeeting ==
    /\ LoopFree
    /\ Callable("handle_meeting_response")
    /\ issued.runs = 0
    /\ \E present \in SUBSET {"accepts_meeting", "meeting_date", "meeting_time"} :
       \E b \in BoolArgs, d \in DateArgs, t \in TimeArgs :
          issued' = [name |-> "handle_meeting_response",
                     args |-> MkArgs(present, [accepts_meeting |-> b, meeting_date |-> d,
                                               meeting_time |-> t]),
                     runs |-> 1]
    /\ tasks' = [tasks EXCEPT !.handler = "l158"]
    /\ UNCHANGED <<contactId, state, node, crmLog, last, cancelled, context, sent, hops, ended,
                   periphery>>

\* the handler coroutine executes the statement it stands at
LoopMeetingStatement ==
    /\ ~cancelled
    /\ tasks.handler \in MeetingLines
    /\ LET s == MeetingStatement(tasks.handler, issued.args, state)
       IN  /\ state' = s.state
           /\ tasks' = [tasks EXCEPT !.handler = s.pc]
    /\ UNCHANGED <<contactId, node, crmLog, last, cancelled, context, sent, issued, hops, ended,
                   periphery>>

\* the handler coroutine returns and the flow manager installs the node
LoopMeetingReturn ==
    /\ ~cancelled
    /\ tasks.handler \in {"l177", "l184"}
    /\ LET r == MeetingReturn(tasks.handler)
       IN  /\ node' = r.next
           /\ last' = [action |-> "handle_meeting_response", outcome |-> "ok",
                       text |-> r.text, next |-> r.next.name, gen |-> ""]
    /\ hops' = hops + 1
    /\ tasks' = [tasks EXCEPT !.handler = "idle"]
    /\ UNCHANGED <<contactId, state, crmLog, cancelled, context, sent, issued, ended,
                   periphery>>

\* query_knowledge_base runs up to its await of generate_content
LoopQueryStart ==
    /\ LoopFree
    /\ Callable("query_knowledge_base")
    /\ tasks.query = "idle"
    /\ tasks' = [tasks EXCEPT !.query = "awaiting", !.query_from = node.name]
    /\ UNCHANGED <<contactId, state, node, crmLog, last, cancelled, context, sent,
                   issued, hops, ended,
                   periphery>>

\* generate_content answers or raises, query_knowledge_base returns, and
\* the flow manager applies its return to the session as it stands now
LoopQueryComplete ==
    /\ LoopFree
    /\ ~cancelled
    /\ tasks.query = "awaiting"
    /\ \E q \in Questions, gen \in GenOutcomes :
          LET r == query_knowledge_base([question |-> q], state, gen)
          IN  /\ state' = r.state
              /\ node' = IF r.raised \/ r.next = NoNode THEN node ELSE r.next
              /\ last' = [action |-> "query_knowledge_base",
                          outcome |-> IF r.raised THEN "raised" ELSE "ok",
                          text |-> r.text, next |-> r.next.name, gen |-> gen]
              /\ hops' = IF r.raised \/ r.next = NoNode THEN hops ELSE hops + 1
    /\ tasks' = [tasks EXCEPT !.query = "idle"]
    /\ UNCHANGED <<contactId, crmLog, cancelled, context, sent, issued, ended,
                   periphery>>

\* the transport disconnects and the loop runs on_client_disconnected
LoopDisconnect ==
    /\ LoopFree
    /\ ~cancelled /\ node # NoNode
    /\ \E o \in CrmOutcomes :
          LET r == on_client_disconnected(state, contactId, o)
          IN  /\ crmLog' = crmLog \o r.crm
              /\ cancelled' = r.cancelled
    /\ UNCHANGED <<contactId, state, node, last, aux, hops>>

LoopNext ==
    \/ OnClientConnected
    \/ CaptureManagerDetails
    \/ HandleHasProviderResponse
    \/ CaptureProviderName
    \/ LoopDispatchMeeting
    \/ LoopMeetingStatement
    \/ LoopMeetingReturn
    \/ LoopQueryStart
    \/ LoopQueryComplete
    \/ LoopDisconnect

LoopSpec == LoopInit /\ [][LoopNext]_vars

\* C23: handlers run one at a time to completion: while
\* handle_meeting_response is between its first and its last statement no
\* other coroutine takes a step, so no other handler's return is applied and
\* the disconnect handler does not run; every state the disconnect handler
\* reads holds all or none of a handler's writes (never meeting_status
\* "Interested - To Be Scheduled" with interested_in_novated_leasing still
\* false); and the statements together leave the state the handler leaves.
C23_HandlersRunToCompletion ==
    /\ [](\A i \in DisconnectSyncs :
             LET notes == crmLog[i].notes
             IN  /\ notes["Meeting Status"] = <<"Interested - To Be Scheduled">> =>
                       /\ notes["Interested"] = <<TRUE>>
                       /\ notes["Meeting Day/Time"] # None
                 /\ notes["Meeting Status"] = <<"Declined">> =>
                       notes["Interested"] = <<FALSE>>
                 /\ notes["Meeting Status"] = <<"Not Discussed">> =>
                       /\ notes["Interested"] = <<FALSE>>
                       /\ notes["Meeting Day/Time"] = None)
    /\ [][ /\ tasks.handler # "idle" =>
                 /\ crmLog' = crmLog
                 /\ cancelled' = cancelled
                 /\ tasks'.query = tasks.query
                 /\ last'.action \in {last.action, "handle_meeting_response"}
           /\ (tasks.handler # "idle" /\ tasks'.handler = "idle") =>
                 LET r == handle_meeting_response(issued.args, state')
                 IN  r.state = state' /\ r.next = node' ]_vars

\* the transport disconnected right after an accepted meeting's handler
\* returned, and the notes hold all of its writes
C23_Witness ==
    /\ cancelled
    /\ tasks.handler = "idle"
    /\ issued.runs = 1
    /\ last.action = "handle_meeting_response"
    /\ Len(crmLog) = 1
    /\ crmLog[1].notes["Meeting Status"] = <<"Interested - To Be Scheduled">>
    /\ crmLog[1].notes["Interested"] = <<TRUE>>
    /\ crmLog[1].notes["Meeting Day/Time"] = <<"next Tuesday at 10am">>

\* C27: a query_knowledge_base call that awaits generate_content while
\* another handler runs and installs its node takes nothing back when it
\* completes, with an answer or with the fallback: the node and the session
\* state after the completion are those the transitioning handler left.
C27_PendingQueryKeepsTransition ==
    [][(tasks.query = "awaiting" /\ tasks'.query = "idle") =>
          /\ state' = state
          /\ node' = node
          /\ hops' = hops
          /\ last'.action = "query_knowledge_base"
          /\ last'.next = "None"]_vars

\* a query that started at the pitch completed with the fallback after
\* handle_meeting_response had moved the session to collect_email
C27_Witness ==
    /\ tasks.query = "idle"
    /\ tasks.query_from = "scenario_a_pitch"
    /\ last.action = "query_knowledge_base"
    /\ last.gen = "raise"
    /\ node = create_collect_email_node(TRUE)
    /\ state.meeting_status = <<"Interested - To Be Scheduled">>
    /\ state.interested_in_novated_leasing = <<TRUE>>

\* ------------------------------------------- state against the node reached

\* C31: whenever the current node is collect_email built for the meeting,
\* meeting_status is "Interested - To Be Scheduled"; whenever it is
\* collect_email built for the summary, meeting_status is "Declined" and
\* send_summary_email is True; whenever it is offer_email_summary,
\* meeting_status is "Declined".
C31_MeetingStatusMatchesNode ==
    /\ node = create_collect_email_node(TRUE)
          => state.meeting_status = <<"Interested - To Be Scheduled">>
    /\ node = create_collect_email_node(FALSE)
          => /\ state.meeting_status = <<"Declined">>
             /\ state.send_summary_email = <<TRUE>>
    /\ node = create_offer_email_summary_node
          => state.meeting_status = <<"Declined">>

\* the summary was asked for after the meeting was declined, and a question
\* has been answered at collect_email since
C31_Witness ==
    /\ node = create_collect_email_node(FALSE)
    /\ last.action = "query_knowledge_base" /\ last.outcome = "ok"
    /\ state.send_summary_email = <<TRUE>>
    /\ state.meeting_status = <<"Declined">>

\* C32: the provider facts agree with the branch taken: in every reachable
\* state has_existing_provider False implies current_provider is the
\* no-provider sentinel; at ask_provider_name and scenario_a_pitch
\* has_existing_provider is True; at scenario_b_pitch it is False; and, once
\* a node is installed, has_existing_provider is unknown (None) exactly while
\* the current node is initial_greeting or ask_provider.
C32_ProviderFactsMatchBranch ==
    /\ state.has_existing_provider = <<FALSE>> => state.current_provider = <<"None">>
    /\ NodeKey(node) \in {"ask_provider_name", "scenario_a_pitch"}
          => state.has_existing_provider = <<TRUE>>
    /\ NodeKey(node) = "scenario_b_pitch" => state.has_existing_provider = <<FALSE>>
    /\ node # NoNode =>
          (state.has_existing_provider = None
              <=> NodeKey(node) \in {"initial_greeting", "ask_provider"})

\* the call under study supplied the argument: present, and a non-empty string
Given(key) == ~Missing(key) /\ TruthyStr(issued.args[key])

\* C33: on an accepted meeting the combined field is derived from the date
\* and the time: both supplied, "<date> at <time>"; the date alone, the date;
\* no date, with or without a time, "To be confirmed".  A time supplied
\* without a date is kept in meeting_time while the combined field is
\* "To be confirmed".
C33_CombinedDateTime ==
    (/\ issued.name = "handle_meeting_response"
     /\ ~Missing("accepts_meeting") /\ issued.args["accepts_meeting"] = <<TRUE>>)
    => /\ (Given("meeting_date") /\ Given("meeting_time"))
             => state.meeting_day_time =
                   <<issued.args["meeting_date"][1] \o " at " \o issued.args["meeting_time"][1]>>
       /\ (Given("meeting_date") /\ ~Given("meeting_time"))
             => state.meeting_day_time = issued.args["meeting_date"]
       /\ ~Given("meeting_date") => state.meeting_day_time = <<"To be confirmed">>
       /\ (~Given("meeting_date") /\ Given("meeting_time"))
             => state.meeting_time = issued.args["meeting_time"]

\* a meeting accepted with a time and no date, over a state that held the
\* date and time of an earlier answer
C33_Witness ==
    /\ issued.name = "handle_meeting_response"
    /\ issued.args = [accepts_meeting |-> <<TRUE>>, meeting_time |-> <<"10am">>]
    /\ issued.runs = 1
    /\ state.meeting_time = <<"10am">>
    /\ state.meeting_date = <<"To be confirmed">>
    /\ state.meeting_day_time = <<"To be confirmed">>
    /\ state.manager_name = <<"Pat">>

\* ------------------------------------------------- order of the CRM calls

\* C34: at both CRM sync sites (finalize_and_update_crm and the disconnect
\* handler) the lead-status update and the deal creation are attempted only
\* after add_call_notes has returned: a sync whose notes push raised made no
\* lead-status update and created no deal, and the error was swallowed: it
\* was logged, finalize_and_update_crm still returned its acknowledgment,
\* and the disconnect handler still cancelled the task.
C34_NotesBeforeStatusAndDeal ==
    /\ \A i \in DOMAIN crmLog :
          LET e == crmLog[i]
          IN  /\ (e.status # "" \/ e.status_result # "skipped" \/ e.deal_result # "skipped")
                    => e.notes_result = "ok"
              /\ e.notes_result = "raise" => e.error_logged
              /\ e.site = "disconnect" => cancelled
    /\ (/\ last.action = "finalize_and_update_crm" /\ last.outcome # "UnknownAction"
        /\ crmLog # <<>>)
          => (last.outcome = "ok" /\ last.text = <<"Cheers for your time!">>)

\* the notes push raised in the finalize sync and again in the disconnect sync
C34_Witness ==
    /\ Len(crmLog) = 2
    /\ crmLog[1].site = "finalize" /\ crmLog[1].notes_result = "raise"
    /\ crmLog[1].status = "" /\ crmLog[1].deal_result = "skipped"
    /\ crmLog[2].site = "disconnect" /\ crmLog[2].notes_result = "raise"
    /\ crmLog[2].status = "" /\ crmLog[2].deal_result = "skipped"
    /\ last.action = "finalize_and_update_crm" /\ last.outcome = "ok"
    /\ cancelled

\* C35: a missing boolean argument is treated as false and takes the
\* negative branch: handle_has_provider_response without has_provider moves
\* to scenario_b_pitch and records no provider (the flag False, the provider
\* the no-provider sentinel); handle_meeting_response without accepts_meeting
\* sets meeting_status "Declined" and moves to offer_email_summary;
\* handle_email_summary_response without wants_summary sets
\* send_summary_email False and moves to end_call.
C35_MissingBooleanIsFalse ==
    /\ (issued.name = "handle_has_provider_response" /\ Missing("has_provider")) =>
          /\ last.outcome = "ok"
          /\ node = create_scenario_b_pitch_node
          /\ state.has_existing_provider = <<FALSE>>
          /\ state.current_provider = <<"None">>
    /\ (issued.name = "handle_meeting_response" /\ Missing("accepts_meeting")) =>
          /\ last.outcome = "ok"
          /\ node = create_offer_email_summary_node
          /\ state.meeting_status = <<"Declined">>
          /\ state.interested_in_novated_leasing = <<FALSE>>
    /\ (issued.name = "handle_email_summary_response" /\ Missing("wants_summary")) =>
          /\ last.outcome = "ok"
          /\ node = create_end_call_node
          /\ state.send_summary_email = <<FALSE>>

\* handle_has_provider_response called with no argument over a state that
\* held a provider
C35_Witness ==
    /\ issued.name = "handle_has_provider_response"
    /\ DOMAIN issued.args = {}
    /\ issued.runs = 1
    /\ node = create_scenario_b_pitch_node
    /\ state.has_existing_provider = <<FALSE>>
    /\ state.current_provider = <<"None">>
    /\ state.manager_name = <<"Pat">>

\* ------------------------------------------------------ the session's contact

\* C36: a session is started only for call data whose body carries a
\* non-empty contactId, and the session state's contact_id is that contactId
\* in every reachable state (no handler writes it); so the contact_id guard
\* of finalize_and_update_crm always passes (every completed finalize call
\* has made its CRM sync), and the finalize sync and the disconnect sync
\* target the same contact.
C36_ContactIdFixed ==
    /\ contactId # ""
    /\ \E cd \in CallData :
          /\ "body" \in DOMAIN cd /\ "contactId" \in DOMAIN cd["body"]
          /\ cd["body"]["contactId"] = <<contactId>>
    /\ state.contact_id = <<contactId>>
    /\ (last.action = "finalize_and_update_crm" /\ last.outcome = "ok") => Finalized >= 1
    /\ \A i \in DOMAIN crmLog : crmLog[i].contact = <<contactId>>

\* the session has finalized and then disconnected: two syncs, one contact
C36_Witness ==
    /\ Len(crmLog) = 2
    /\ crmLog[1].site = "finalize" /\ crmLog[2].site = "disconnect"
    /\ crmLog[1].contact = <<"c2">> /\ crmLog[2].contact = <<"c2">>
    /\ state.contact_id = <<"c2">>
    /\ state.email_address = <<"sam@acme.com">>
    /\ cancelled

\* ------------------------------------------------------------ user idle

\* how many frames the idle callback pushes at most
MaxIdleFrames == 32

TTSSpeakFrame(text) == [frame |-> "TTSSpeakFrame", text |-> text, direction |-> "DOWNSTREAM"]

\* EndFrame(), pushed with FrameDirection.UPSTREAM
EndFrame == [frame |-> "EndFrame", text |-> "", direction |-> "UPSTREAM"]

\* variant: the farewell is spoken but monitoring goes on
handle_user_idle_keeps_monitoring(retry_count) ==
    IF retry_count = 1
    THEN [pushed |-> <<TTSSpeakFrame("Are you still there?")>>, result |-> TRUE]
    ELSE [pushed |-> <<TTSSpeakFrame("I'll leave you for now. Have a nice day!"), EndFrame>>,
          result |-> TRUE]

\* the callback: the frames it pushes and what it returns
handle_user_idle(retry_count) ==
    IF retry_count = 1
    THEN [pushed |-> <<TTSSpeakFrame("Are you still there?")>>, result |-> TRUE]
    ELSE [pushed |-> <<TTSSpeakFrame("I'll leave you for now. Have a nice day!"), EndFrame>>,
          result |-> FALSE]

\* a pushed frame, with the retry_count of the callback that pushed it
Pushed(f, retry_count) ==
    [frame |-> f.frame, text |-> f.text, direction |-> f.direction,
     retry_count |-> retry_count]

\* the flow has a session and no client has connected
FlowAtRest ==
    /\ contactId = "c1"
    /\ state = initial_state(<<"c1">>)
    /\ node = NoNode
    /\ crmLog = <<>>
    /\ last = NoCall
    /\ cancelled = FALSE
    /\ context = <<>>
    /\ sent = <<>>
    /\ issued = NoIssue
    /\ tasks = NoTasks
    /\ hops = 0
    /\ ended = FALSE

flow == <<contactId, state, node, crmLog, last, cancelled, context, sent, issued,
          tasks, hops, ended>>

server == <<call_body_data, call_results, webhook, campaign>>

IdleInit ==
    /\ FlowAtRest
    /\ PeripheryAtRest

\* the first speech of the conversation reaches the processor: it starts
\* to time the user's silence
IdleConversationStarted ==
    /\ idle.phase = "waiting"
    /\ idle' = [idle EXCEPT !.phase = "monitoring"]
    /\ UNCHANGED <<flow, server>>

\* the user starts to speak: the count of consecutive timeouts starts again
\* and no timeout is counted while they speak
IdleUserStartedSpeaking ==
    /\ idle.phase = "monitoring"
    /\ ~idle.interrupted
    /\ idle' = [idle EXCEPT !.retry_count = 0, !.interrupted = TRUE]
    /\ UNCHANGED <<flow, server>>

IdleUserStoppedSpeaking ==
    /\ idle.phase = "monitoring"
    /\ idle.interrupted
    /\ idle' = [idle EXCEPT !.interrupted = FALSE]
    /\ UNCHANGED <<flow, server>>

\* timeout seconds pass in silence: the processor counts the timeout, calls
\* the callback with the count, and stops monitoring if it returns False
IdleTimeout ==
    /\ idle.phase = "monitoring"
    /\ ~idle.interrupted
    /\ Len(idle.pushed) + 2 <= MaxIdleFrames
    /\ LET retry_count == idle.retry_count + 1
           r == handle_user_idle(retry_count)
       IN  idle' = [idle EXCEPT
                       !.retry_count = retry_count,
                       !.pushed = @ \o [i \in DOMAIN r.pushed |->
                                           Pushed(r.pushed[i], retry_count)],
                       !.phase = IF r.result THEN "monitoring" ELSE "stopped"]
    /\ UNCHANGED <<flow, server>>

IdleNext ==
    \/ IdleConversationStarted
    \/ IdleUserStartedSpeaking
    \/ IdleUserStoppedSpeaking
    \/ IdleTimeout

IdleSpec == IdleInit /\ [][IdleNext]_vars

\* the frames pushed in this step
NewlyPushed == SubSeq(idle'.pushed, Len(idle.pushed) + 1, Len(idle'.pushed))

IsReminder(p) == p.frame = "TTSSpeakFrame" /\ p.text = "Are you still there?"

MaxCampaigns == 1

\* bool(v) of an Optional[int]: None and 0 are falsy
TruthyInt(v) == v # None /\ v[1] # 0

\* a HubSpot contact of the search result
Contact(id, phone) ==
    [id |-> id, properties |-> [phone |-> phone, hs_lead_status |-> <<"NEW">>,
                                firstname |-> <<"Sam">>]]

\* what fetch_contacts_by_lead_status returns: nothing, contacts without a
\* usable phone number, or a mix
FetchResults ==
    { <<>>,
      <<Contact("c2", None), Contact("c3", <<"">>)>>,
      <<Contact("c1", <<"+61400000001">>), Contact("c2", None), Contact("c3", <<"">>),
        Contact("c4", <<"+61400000004">>)>> }

CampaignRequests ==
    [update_status_after_call : {None, <<TRUE>>, <<FALSE>>},
     max_contacts : {None, <<0>>, <<1>>, <<2>>}]

\* what make_twilio_call does for one call: returns a sid, or raises
TwilioOutcomes == {"call_initiated", "failed"}

\* what update_contact_lead_status does: True, False (it swallowed an
\* ApiException), or another exception
UpdateOutcomes == {"ok", "false", "raise"}

\* the call SID Twilio gives the i-th call of the n-th campaign
CallSid(n, i) == <<"CA" \o ToString(n) \o ToString(i)>>

\* the entry of calls_payload for a contact
CallPayload(contact) ==
    [phone_number |-> contact.properties.phone,
     body |-> [contactId |-> <<contact.id>>,
               leadStatus |-> args_get(contact.properties, "hs_lead_status", None),
               firstname |-> args_get(contact.properties, "firstname", <<"">>),
               lastname |-> args_get(contact.properties, "lastname", <<"">>),
               email |-> args_get(contact.properties, "email", <<"">>)]]

\* the loop of step 2 from the i-th contact on: calls_payload as it stands
\* when the loop ends or breaks
RECURSIVE build_calls_payload(_, _, _, _)
build_calls_payload(contacts, i, calls_payload, max_contacts) ==
    IF i > Len(contacts) THEN calls_payload
    ELSE LET phone_number == args_get(contacts[i].properties, "phone", None)
         IN  IF TruthyStr(phone_number)
             THEN LET appended == Append(calls_payload, CallPayload(contacts[i]))
                  IN  IF TruthyInt(max_contacts) /\ Len(appended) >= max_contacts[1]
                      THEN appended
                      ELSE build_calls_payload(contacts, i + 1, appended, max_contacts)
             ELSE build_calls_payload(contacts, i + 1, calls_payload, max_contacts)

\* batch_outbound_call: one result per call, in order; n numbers the campaign
batch_outbound_call(calls, twilio, n) ==
    [i \in DOMAIN calls |->
        IF twilio[i] = "call_initiated"
        THEN [phonenumber |-> calls[i].phone_number, callsid |-> CallSid(n, i),
              body |-> calls[i].body, status |-> "call_initiated"]
        ELSE [phonenumber |-> calls[i].phone_number, error |-> <<"error">>,
              status |-> "failed"]]

\* the results whose call was initiated
Initiated(results) == {i \in DOMAIN results : results[i].status = "call_initiated"}

\* step 4: call_body_data once the body of every initiated call is stored
store_body_data(store, results) ==
    LET sids == {results[i].callsid : i \in Initiated(results)}
    IN  [sid \in DOMAIN store \cup sids |->
            IF sid \in sids
            THEN results[CHOOSE i \in Initiated(results) : results[i].callsid = sid].body
            ELSE store[sid]]

\* step 5: the lead-status updates made, one for every initiated call, in
\* order; up[i] is what update_contact_lead_status does for the i-th call
RECURSIVE update_statuses(_, _, _)
update_statuses(results, i, up) ==
    IF i > Len(results) THEN <<>>
    ELSE IF results[i].status = "call_initiated"
              /\ TruthyStr(args_get(results[i].body, "contactId", None))
         THEN <<[op |-> "update_contact_lead_status", contact |-> results[i].body.contactId,
                 status |-> HUBSPOT_LEAD_STATUS.ATTEMPTED_TO_CONTACT, result |-> up[i],
                 call |-> i]>>
              \o update_statuses(results, i + 1, up)
         ELSE update_statuses(results, i + 1, up)

\* what a campaign request leaves behind
Campaign(calls, results, store, crm, response, status_code) ==
    [calls |-> calls, results |-> results, call_body_data |-> store, crm |-> crm,
     response |-> response, status_code |-> status_code]

\* start_campaign: contacts is what HubSpot's search returns, host_set
\* whether API_BASE_URL is set, twilio and up what Twilio and HubSpot do for
\* each call, store the call_body_data it finds, n the number of the campaign
start_campaign(campaign_request, contacts, host_set, twilio, up, store, n) ==
    IF contacts = <<>>
    THEN Campaign(<<>>, <<>>, store, <<>>,
                  [success |-> FALSE,
                   message |-> "No contacts found with specified lead statuses",
                   total_contacts |-> 0, contacts_with_phone |-> 0,
                   calls_initiated |-> 0, calls_failed |-> 0], 200)
    ELSE LET calls_payload ==
                 build_calls_payload(contacts, 1, <<>>, campaign_request.max_contacts)
         IN  IF calls_payload = <<>>
             THEN Campaign(<<>>, <<>>, store, <<>>,
                           [success |-> FALSE,
                            message |-> "No valid phone numbers found in contacts",
                            total_contacts |-> Len(contacts), contacts_with_phone |-> 0,
                            calls_initiated |-> 0, calls_failed |-> 0], 200)
             ELSE IF ~host_set
             THEN Campaign(calls_payload, <<>>, store, <<>>,
                           [detail |-> "Campaign failed"], 500)
             ELSE LET results == batch_outbound_call(calls_payload, twilio, n)
                      calls_initiated == Cardinality(Initiated(results))
                      calls_failed == Len(results) - calls_initiated
                  IN  Campaign(calls_payload, results, store_body_data(store, results),
                               IF TruthyBool(campaign_request.update_status_after_call)
                               THEN update_statuses(results, 1, up) ELSE <<>>,
                               [success |-> TRUE,
                                message |-> "Campaign started successfully",
                                total_contacts_found |-> Len(contacts),
                                contacts_with_phone |-> Len(calls_payload),
                                calls_initiated |-> calls_initiated,
                                calls_failed |-> calls_failed,
                                hubspot_updated |-> campaign_request.update_status_after_call],
                               200)

CampaignInit ==
    /\ FlowAtRest
    /\ PeripheryAtRest

StartCampaign ==
    /\ campaign.handled < MaxCampaigns
    /\ \E campaign_request \in CampaignRequests, contacts \in FetchResults,
          host_set \in BOOLEAN :
          LET calls == build_calls_payload(contacts, 1, <<>>, campaign_request.max_contacts)
          IN  \E twilio \in [DOMAIN calls -> TwilioOutcomes],
                 up \in [DOMAIN calls -> UpdateOutcomes] :
                 LET r == start_campaign(campaign_request, contacts, host_set, twilio, up,
                                         call_body_data, campaign.handled + 1)
                 IN  /\ campaign' = [handled |-> campaign.handled + 1,
                                     request |-> campaign_request,
                                     contacts |-> contacts,
                                     calls |-> r.calls,
                                     results |-> r.results,
                                     crm |-> r.crm,
                                     response |-> r.response,
                                     status_code |-> r.status_code]
                     /\ call_body_data' = r.call_body_data
    /\ UNCHANGED <<flow, idle, call_results, webhook>>

CampaignNext == StartCampaign

CampaignSpec == CampaignInit /\ [][CampaignNext]_vars

\* the contacts of the search result that have a phone number
WithPhone(contacts) ==
    {i \in DOMAIN contacts : TruthyStr(args_get(contacts[i].properties, "phone", None))}

\* C39: a campaign start calls only contacts that have a phone number,
\* attempts at most max_contacts calls when max_contacts is set, reports
\* calls_initiated + calls_failed equal to the number of calls attempted, and
\* updates a contact's lead status to ATTEMPTED_TO_CONTACT only if that
\* contact's call was initiated and update_status_after_call is true.
C39_CampaignCallsAndUpdates ==
    /\ \A k \in DOMAIN campaign.results :
          \E i \in WithPhone(campaign.contacts) :
             campaign.contacts[i].properties.phone = campaign.results[k].phonenumber
    /\ campaign.request # <<>> /\ campaign.request.max_contacts # None
          => Len(campaign.results) <= campaign.request.max_contacts[1]
    /\ campaign.status_code = 200
          => campaign.response.calls_initiated + campaign.response.calls_failed
                = Len(campaign.results)
    /\ \A u \in DOMAIN campaign.crm :
          /\ campaign.crm[u].status = "ATTEMPTED_TO_CONTACT"
          /\ campaign.request.update_status_after_call = <<TRUE>>
          /\ \E k \in Initiated(campaign.results) :
                campaign.results[k].body.contactId = campaign.crm[u].contact

\* ------------------------------------------------------ call-status webhook

\* call-status requests handled per server
MaxWebhooks == 2

\* the stores a campaign leaves behind: the body of every initiated call
\* under its call SID
CampaignStores ==
    UNION { { start_campaign(rq, cs, TRUE, tw, [i \in DOMAIN tw |-> "ok"], <<>>, 1).call_body_data :
                tw \in [DOMAIN build_calls_payload(cs, 1, <<>>, rq.max_contacts)
                          -> TwilioOutcomes] } :
            rq \in CampaignRequests, cs \in FetchResults }

\* the form Twilio posts: the SID of a call of the campaign or of another
\* call, a status, and a duration once the call has one
CallSids == {CallSid(1, 1), CallSid(1, 2), <<"CA99">>}
CallStatuses == {<<"ringing">>, <<"completed">>, <<"no-answer">>, <<"busy">>, <<"failed">>}
StatusForms ==
    { [CallSid |-> sid, CallStatus |-> st] : sid \in CallSids, st \in CallStatuses }
    \cup { [CallSid |-> sid, CallStatus |-> st, CallDuration |-> <<"42">>] :
             sid \in CallSids, st \in CallStatuses }

\* what the HubSpot calls of one request do
WebhookOutcomes == [update : UpdateOutcomes, notes : {"ok", "raise"}]

\* the entry of call_results for a call SID, as lines 218-225 leave it
record_status(results, call_sid, contact_id, body_data, call_status, call_duration) ==
    LET entry == IF call_sid \in DOMAIN results THEN results[call_sid]
                 ELSE [contact_id |-> contact_id, body_data |-> body_data,
                       twilio_status |-> None, call_duration |-> None]
    IN  [sid \in DOMAIN results \cup {call_sid} |->
            IF sid = call_sid
            THEN [entry EXCEPT !.twilio_status = call_status, !.call_duration = call_duration]
            ELSE results[sid]]

\* the HubSpot calls made for a call that failed; o is what they do.  The
\* note's Timestamp field, the wall clock, is left out.
failure_writes(contact_id, call_sid, call_status, o) ==
    LET update == [op |-> "update_contact_lead_status", contact |-> contact_id,
                   status |-> HUBSPOT_LEAD_STATUS.ATTEMPTED_TO_CONTACT,
                   notes |-> <<>>, result |-> o.update]
        notes == [op |-> "add_call_notes", contact |-> contact_id, status |-> "",
                  notes |-> ("Call Status" :> call_status) @@ ("Call SID" :> call_sid)
                            @@ ("Note" :> <<"Outbound call " \o PyStr(call_status)>>),
                  result |-> o.notes]
    IN  IF o.update = "raise" THEN <<update>> ELSE <<update, notes>>

\* variant: every status but completed counts as a failed call
twilio_call_status_webhook_any_status(form_data, store, results, o) ==
    LET call_sid == args_get(form_data, "CallSid", None)
        call_status == args_get(form_data, "CallStatus", None)
        call_duration == args_get(form_data, "CallDuration", <<"0">>)
        body_data == args_get(store, call_sid, <<>>)
        contact_id == args_get(body_data, "contactId", None)
        crm == IF TruthyStr(contact_id) /\ call_status # <<"completed">>
               THEN failure_writes(contact_id, call_sid, call_status, o)
               ELSE <<>>
    IN  [call_results |-> record_status(results, call_sid, contact_id, body_data,
                                        call_status, call_duration),
         crm |-> crm,
         status_code |-> IF \E i \in DOMAIN crm : crm[i].result = "raise" THEN 500 ELSE 200]

\* the handler: call_results as it leaves it, the HubSpot calls it makes,
\* and the status code of its response
twilio_call_status_webhook(form_data, store, results, o) ==
    LET call_sid == args_get(form_data, "CallSid", None)
        call_status == args_get(form_data, "CallStatus", None)
        call_duration == args_get(form_data, "CallDuration", <<"0">>)
        body_data == args_get(store, call_sid, <<>>)
        contact_id == args_get(body_data, "contactId", None)
        crm == IF TruthyStr(contact_id)
               THEN IF call_status = <<"completed">> THEN <<>>
                    ELSE IF call_status \in {<<"no-answer">>, <<"busy">>, <<"failed">>}
                    THEN failure_writes(contact_id, call_sid, call_status, o)
                    ELSE <<>>
               ELSE <<>>
    IN  [call_results |-> record_status(results, call_sid, contact_id, body_data,
                                        call_status, call_duration),
         crm |-> crm,
         status_code |-> IF \E i \in DOMAIN crm : crm[i].result = "raise" THEN 500 ELSE 200]

WebhookInit ==
    /\ FlowAtRest
    /\ idle = NoIdle
    /\ call_body_data \in CampaignStores
    /\ call_results = <<>>
    /\ webhook = NoWebhook
    /\ campaign = NoCampaign

TwilioCallStatusWebhook ==
    /\ webhook.handled < MaxWebhooks
    /\ \E form_data \in StatusForms, o \in WebhookOutcomes :
          LET r == twilio_call_status_webhook(form_data, call_body_data, call_results, o)
          IN  /\ call_results' = r.call_results
              /\ webhook' = [handled |-> webhook.handled + 1, form |-> form_data,
                             crm |-> r.crm, status_code |-> r.status_code]
    /\ UNCHANGED <<flow, idle, call_body_data, campaign>>

WebhookNext == TwilioCallStatusWebhook

WebhookSpec == WebhookInit /\ [][WebhookNext]_vars

\* the request handled last is for a call whose stored body names a contact
KnownContact ==
    /\ webhook.form["CallSid"] \in DOMAIN call_body_data
    /\ TruthyStr(call_body_data[webhook.form["CallSid"]].contactId)

\* the request handled last reports a call that did not get through
FailedCall == webhook.form["CallStatus"] \in {<<"no-answer">>, <<"busy">>, <<"failed">>}

\* C38: the call-status webhook writes to the CRM only for a call SID with a
\* known contact and a status of no-answer, busy or failed: it then sets the
\* contact's lead status to ATTEMPTED_TO_CONTACT and, the update having
\* returned, adds a failure note; for completed, for any other status and
\* for an unknown call SID it makes no CRM write.  In every case the call's
\* latest status and duration are recorded in call_results, and no entry of
\* call_results or call_body_data is removed.
C38_WebhookWritesOnlyOnFailure ==
    /\ [](webhook.handled > 0 =>
            /\ webhook.crm # <<>> <=> (KnownContact /\ FailedCall)
            /\ (KnownContact /\ FailedCall) =>
                  LET contact == call_body_data[webhook.form["CallSid"]].contactId
                  IN  /\ webhook.crm[1].op = "update_contact_lead_status"
                      /\ webhook.crm[1].contact = contact
                      /\ webhook.crm[1].status = "ATTEMPTED_TO_CONTACT"
                      /\ webhook.crm[1].result # "raise" =>
                            /\ Len(webhook.crm) = 2
                            /\ webhook.crm[2].op = "add_call_notes"
                            /\ webhook.crm[2].contact = contact
                            /\ webhook.crm[2].notes["Call Status"] = webhook.form["CallStatus"]
            /\ webhook.form["CallSid"] \in DOMAIN call_results
            /\ call_results[webhook.form["CallSid"]].twilio_status = webhook.form["CallStatus"]
            /\ call_results[webhook.form["CallSid"]].call_duration
                  = args_get(webhook.form, "CallDuration", <<"0">>))
    /\ [][/\ DOMAIN call_results \subseteq DOMAIN call_results'
          /\ DOMAIN call_body_data \subseteq DOMAIN call_body_data'
          /\ \A sid \in DOMAIN call_body_data : call_body_data'[sid] = call_body_data[sid]]_vars

\* one call of the campaign was reported completed and then the other not
\* answered: the second request made both CRM writes, the first none
C38_Witness ==
    /\ webhook.handled = 2
    /\ webhook.form = [CallSid |-> CallSid(1, 2), CallStatus |-> <<"no-answer">>]
    /\ Len(webhook.crm) = 2
    /\ webhook.crm[1].contact = <<"c4">>
    /\ webhook.crm[2].result = "ok"
    /\ call_results[CallSid(1, 2)].twilio_status = <<"no-answer">>
    /\ call_results[CallSid(1, 2)].call_duration = <<"0">>
    /\ CallSid(1, 1) \in DOMAIN call_results
    /\ call_results[CallSid(1, 1)].twilio_status = <<"completed">>

====
